---- MODULE Spec2Model ----
(***************************************************************************)
(* MetaMCP: a tool gateway (send message, get messages, post content, get  *)
(* analytics) over the Facebook, Instagram and WhatsApp REST APIs.         *)
(*                                                                         *)
(* One tool call, one dispatcher call, one adapter call or one evaluation  *)
(* of the status mapping is one step: the step runs the whole Python       *)
(* function, with the HTTP responses it receives chosen by the step.       *)
(*                                                                         *)
(* Python values:                                                          *)
(*   - a dict of tool arguments is a function whose DOMAIN is the set of   *)
(*     keys that are present;                                              *)
(*   - identifiers that the code inspects character by character           *)
(*     (recipient ids) are sequences of one-character strings; URLs and    *)
(*     vendor error texts are sequences of tokens; other strings are TLA+  *)
(*     strings;                                                            *)
(*   - None is the string None for strings, NoneSeq for sequences and      *)
(*     NoneList for lists of sequences.                                    *)
(*   - the outcome of a Python call is a record: status "ok" with a value, *)
(*     "typed" for a raised MetaMCPError (code = its error_code), or       *)
(*     "untyped" for any other exception (code = its class).               *)
(***************************************************************************)
EXTENDS Integers, Sequences, FiniteSets, TLC

VARIABLES
    settings,   \* the process-wide Settings object, loaded once at startup
    op,         \* the call just made: layer, name, args
    result,     \* its outcome (status "idle" between calls)
    http,       \* the HTTP requests issued during that call, in order
    replies,    \* the responses those requests received, in order
    trace,      \* for a tool call: the stage that ended the handler's try
                \* block, that stage's outcome, the handler's own outcome and
                \* the adapter the dispatcher returned
    attempts,   \* for a call of send_message_with_retry: its attempts, in order
    calls,      \* the tool calls running concurrently on the event loop: each
                \* coroutine's arguments, position, adapter reference, requests
                \* issued, responses received and envelope
    heap        \* the adapter objects constructed so far; a reference is an index

vars == <<settings, op, result, http, replies, trace, attempts, calls, heap>>

----------------------------------------------------------------------------
(* Python values *)

None == "<None>"
NoneSeq == <<None>>
NoneList == <<NoneSeq>>

\* Python truthiness of an optional str held as a TLA+ string
TruthyStr(s) == s # None /\ s # ""
\* Python truthiness of an optional str or list held as a sequence
TruthySeq(s) == s # NoneSeq /\ s # NoneList /\ Len(s) > 0

EmptyDict == [k \in {} |-> None]
\* the dicts that either lack key k or bind it to a value of S
Opt(k, S) == {EmptyDict} \cup {[x \in {k} |-> v] : v \in S}
Has(args, k) == k \in DOMAIN args
\* args.get(k, default)
Get(args, k, default) == IF k \in DOMAIN args THEN args[k] ELSE default

Ok(v) == [status |-> "ok", code |-> None, message |-> None, value |-> v]
Typed(c, m) == [status |-> "typed", code |-> c, message |-> m]
Untyped(c, m) == [status |-> "untyped", code |-> c, message |-> m]
Idle == [status |-> "idle"]

----------------------------------------------------------------------------
(* errors.py *)

INVALID_PLATFORM == "INVALID_PLATFORM"
INVALID_RECIPIENT == "INVALID_RECIPIENT"
AUTH_FAILED == "AUTH_FAILED"
API_ERROR == "API_ERROR"
MISSING_IDENTIFIER == "MISSING_IDENTIFIER"
PLATFORM_NOT_SUPPORTED == "PLATFORM_NOT_SUPPORTED"
INVALID_METRIC == "INVALID_METRIC"
INVALID_PERIOD == "INVALID_PERIOD"
MISSING_CONTENT == "MISSING_CONTENT"
MEDIA_UPLOAD_FAILED == "MEDIA_UPLOAD_FAILED"
INSUFFICIENT_PERMISSIONS == "INSUFFICIENT_PERMISSIONS"
RATE_LIMIT_EXCEEDED == "RATE_LIMIT_EXCEEDED"
NETWORK_ERROR == "NETWORK_ERROR"
VALIDATION_ERROR == "VALIDATION_ERROR"

ErrorCode ==
    { INVALID_PLATFORM, INVALID_RECIPIENT, AUTH_FAILED, API_ERROR,
      MISSING_IDENTIFIER, PLATFORM_NOT_SUPPORTED, INVALID_METRIC,
      INVALID_PERIOD, MISSING_CONTENT, MEDIA_UPLOAD_FAILED,
      INSUFFICIENT_PERMISSIONS, RATE_LIMIT_EXCEEDED, NETWORK_ERROR,
      VALIDATION_ERROR }

PlatformNotSupportedError(platform, operation) ==
    Typed(PLATFORM_NOT_SUPPORTED, <<"not supported", operation, platform>>)

AuthenticationError(message) == Typed(AUTH_FAILED, message)

ValidationError(message) == Typed(VALIDATION_ERROR, message)

\* str.lower() on one token of a vendor message
Lower(tok) ==
    CASE tok = "Permission" -> "permission"
      [] tok = "PERMISSION" -> "permission"
      [] tok = "Invalid" -> "invalid"
      [] tok = "OAuthException" -> "oauthexception"
      [] OTHER -> tok

\* `needle in text` for a text held as a sequence of tokens
Contains(text, needle) == \E i \in 1..Len(text) : text[i] = needle

LowerText(text) == [i \in 1..Len(text) |-> Lower(text[i])]

\* A vendor payload (the parsed JSON object of a response): `error` is absent
\* or an object whose `type` and `message` are absent (NoneSeq) or texts.
NoErrorObject == [present |-> FALSE, type |-> NoneSeq, message |-> NoneSeq]

\* dict.get(key, "") on a field of the error object
FieldOrEmpty(v) == IF v = NoneSeq THEN <<>> ELSE v

map_meta_api_error_oauth_after_permission(status_code, response_data) ==
    IF status_code = 401 \/ status_code = 403 THEN AUTH_FAILED
    ELSE IF status_code = 429 THEN RATE_LIMIT_EXCEEDED
    ELSE IF status_code = 400 THEN
        LET error == response_data.error
            error_type == FieldOrEmpty(error.type)
        IN  IF Contains(LowerText(FieldOrEmpty(error.message)), "permission")
                THEN INSUFFICIENT_PERMISSIONS
            ELSE IF Contains(error_type, "OAuthException") THEN AUTH_FAILED
            ELSE VALIDATION_ERROR
    ELSE API_ERROR

map_meta_api_error(status_code, response_data) ==
    IF status_code = 401 \/ status_code = 403 THEN AUTH_FAILED
    ELSE IF status_code = 429 THEN RATE_LIMIT_EXCEEDED
    ELSE IF status_code = 400 THEN
        LET error == response_data.error
            error_type == FieldOrEmpty(error.type)
        IN  IF Contains(error_type, "OAuthException") THEN AUTH_FAILED
            ELSE IF Contains(LowerText(FieldOrEmpty(error.message)), "permission")
                THEN INSUFFICIENT_PERMISSIONS
            ELSE VALIDATION_ERROR
    ELSE IF status_code >= 500 THEN API_ERROR
    ELSE API_ERROR

----------------------------------------------------------------------------
(* models.py *)

\* the values of the Platform enumeration
Platform == {"facebook", "instagram", "whatsapp"}

----------------------------------------------------------------------------
(* config.py *)

SettingsSpace ==
    [ demo_mode : BOOLEAN,
      facebook_page_access_token : {"", "fb_token"},
      instagram_access_token : {"", "ig_token"},
      whatsapp_access_token : {"", "wa_token"},
      whatsapp_phone_number_id : {"", "12345"},
      meta_api_version : {"v19.0"} ]

get_platform_token(s, platform) ==
    LET tok == CASE platform = "facebook" -> s.facebook_page_access_token
                 [] platform = "instagram" -> s.instagram_access_token
                 [] platform = "whatsapp" -> s.whatsapp_access_token
                 [] OTHER -> None
    IN  IF tok = "" THEN None ELSE tok

validate_platform_config(s, platform) ==
    IF s.demo_mode THEN TRUE
    ELSE IF get_platform_token(s, platform) = None THEN FALSE
    ELSE IF platform = "whatsapp" /\ s.whatsapp_phone_number_id = "" THEN FALSE
    ELSE TRUE

----------------------------------------------------------------------------
(* validators.py *)

AsciiDigits == {"0", "1", "2", "3", "4", "5", "6", "7", "8", "9"}
\* decimal digits outside ASCII (here ARABIC-INDIC DIGIT THREE, written by its
\* code point), which \d of a str pattern matches as well
UnicodeDigits == {"U+0663"}

\* ^\+[1-9]\d{1,14} matched against the whole of t
E164Core(t) ==
    /\ Len(t) >= 3
    /\ Len(t) <= 16
    /\ t[1] = "+"
    /\ t[2] \in AsciiDigits \ {"0"}
    /\ \A i \in 3..Len(t) : t[i] \in AsciiDigits \cup UnicodeDigits

\* re.match(r"^\+[1-9]\d{1,14}$", phone): $ matches at the end of the string
\* and also just before a newline that ends it
validate_e164_phone(phone) ==
    \/ E164Core(phone)
    \/ /\ Len(phone) > 0
       /\ phone[Len(phone)] = "\n"
       /\ E164Core(SubSeq(phone, 1, Len(phone) - 1))

validate_whatsapp_recipient(recipient_id) ==
    IF ~validate_e164_phone(recipient_id)
        THEN ValidationError(<<"WhatsApp recipient_id must be in E.164 format">>)
    ELSE Ok(None)

\* urlparse on a URL held as tokens: <<scheme, "://", host, path>>,
\* <<scheme, ":", rest>>, <<"//", host, path>> or <<path>>
PathTokens == {"/", "/x.jpg", "/y.png"}
urlparse_scheme(url) ==
    IF Len(url) >= 2 /\ url[2] \in {"://", ":"}
        THEN (CASE url[1] = "HTTP" -> "http"
                [] url[1] = "HTTPS" -> "https"
                [] OTHER -> url[1])
    ELSE ""
urlparse_netloc(url) ==
    IF Len(url) >= 3 /\ url[2] = "://" /\ url[3] \notin PathTokens THEN url[3]
    ELSE IF Len(url) >= 2 /\ url[1] = "//" /\ url[2] \notin PathTokens THEN url[2]
    ELSE ""

\* both failures raised inside the try are caught by `except Exception` and
\* raised again as ValidationError
validate_url(url) ==
    IF urlparse_scheme(url) = "" \/ urlparse_netloc(url) = ""
        THEN ValidationError(<<"Invalid URL", "Invalid URL">>)
    ELSE IF urlparse_scheme(url) \notin {"http", "https"}
        THEN ValidationError(<<"Invalid URL", "URL must use http or https protocol">>)
    ELSE Ok(None)

validate_media_url(media_url) ==
    IF TruthySeq(media_url) THEN validate_url(media_url) ELSE Ok(None)

validate_get_messages_request(conversation_id, recipient_id) ==
    IF ~TruthyStr(conversation_id) /\ ~TruthySeq(recipient_id)
        THEN ValidationError(<<"Either conversation_id or recipient_id must be provided">>)
    ELSE Ok(None)

\* the first URL of media_urls, from index i on, that validate_url rejects
RECURSIVE FirstBadUrl(_, _)
FirstBadUrl(media_urls, i) ==
    IF i > Len(media_urls) THEN Ok(None)
    ELSE IF validate_url(media_urls[i]).status # "ok" THEN validate_url(media_urls[i])
    ELSE FirstBadUrl(media_urls, i + 1)

validate_post_content_request_none_only(platform, content, media_urls) ==
    IF content = None /\ media_urls = NoneList
        THEN ValidationError(<<"At least one of content or media_urls must be provided">>)
    ELSE IF platform = "instagram" /\ media_urls = NoneList
        THEN ValidationError(<<"Instagram posts require media_urls">>)
    ELSE IF TruthySeq(media_urls) THEN FirstBadUrl(media_urls, 1)
    ELSE Ok(None)

validate_post_content_request(platform, content, media_urls) ==
    IF ~TruthyStr(content) /\ ~TruthySeq(media_urls)
        THEN ValidationError(<<"At least one of content or media_urls must be provided">>)
    ELSE IF platform = "instagram" /\ ~TruthySeq(media_urls)
        THEN ValidationError(<<"Instagram posts require media_urls">>)
    ELSE IF TruthySeq(media_urls) THEN FirstBadUrl(media_urls, 1)
    ELSE Ok(None)

----------------------------------------------------------------------------
(* adapters: construction *)

NoAdapter ==
    [ kind |-> "none", access_token |-> None, api_version |-> None,
      phone_number_id |-> None, platform |-> None ]

FacebookAdapter(access_token, api_version) ==
    [ kind |-> "facebook", access_token |-> access_token,
      api_version |-> api_version, phone_number_id |-> None, platform |-> None ]

InstagramAdapter(access_token, api_version) ==
    [ kind |-> "instagram", access_token |-> access_token,
      api_version |-> api_version, phone_number_id |-> None, platform |-> None ]

WhatsAppAdapter(access_token, phone_number_id, api_version) ==
    [ kind |-> "whatsapp", access_token |-> access_token,
      api_version |-> api_version, phone_number_id |-> phone_number_id,
      platform |-> None ]

MockPlatformAdapter(access_token, platform) ==
    [ kind |-> "mock", access_token |-> access_token, api_version |-> None,
      phone_number_id |-> None, platform |-> platform ]

----------------------------------------------------------------------------
(* the vendor's HTTP API, as the adapters see it *)

ErrorObject(type, message) == [present |-> TRUE, type |-> type, message |-> message]

\* a response body: not JSON at all, or a JSON object whose fields are absent
\* (NoneSeq, NoneList) or present
Body(json, error, message_id, id, messages, data) ==
    [ json |-> json, error |-> error, message_id |-> message_id, id |-> id,
      messages |-> messages, data |-> data ]

NotJson == Body(FALSE, NoErrorObject, NoneSeq, NoneSeq, NoneList, NoneList)
BareJson == Body(TRUE, NoErrorObject, NoneSeq, NoneSeq, NoneList, NoneList)
FullJson ==
    Body(TRUE, NoErrorObject, <<"mid.1">>, <<"id_1">>, << <<"wamid.1">>, <<"wamid.2">> >>,
         << <<"m1">>, <<"m2">> >>)
EmptyListsJson == Body(TRUE, NoErrorObject, NoneSeq, NoneSeq, <<>>, <<>>)
\* an element of a list that is an object without an id
NoId == <<"<no id>">>
NoIdJson == Body(TRUE, NoErrorObject, NoneSeq, NoneSeq, <<NoId>>, <<NoId>>)
ErrorJson(type, message) ==
    Body(TRUE, ErrorObject(type, message), NoneSeq, NoneSeq, NoneList, NoneList)

Response(status_code, body) ==
    [kind |-> "response", status_code |-> status_code, body |-> body]
\* the request never got a response: httpx raises a TransportError
TransportFailure(exc) == [kind |-> exc, status_code |-> 0, body |-> NotJson]

Responses ==
    { Response(200, FullJson), Response(200, BareJson), Response(201, EmptyListsJson),
      Response(200, NotJson), Response(200, NoIdJson),
      Response(400, ErrorJson(<<"OAuthException">>, <<"Permission", " denied">>)),
      Response(400, ErrorJson(<<"GraphMethodException">>, <<"Missing ", "Permission">>)),
      Response(400, ErrorJson(<<"GraphMethodException">>, <<"Invalid", " parameter">>)),
      Response(400, BareJson),
      Response(401, ErrorJson(<<"OAuthException">>, <<"Invalid", " token">>)),
      Response(404, BareJson),
      Response(429, BareJson),
      Response(500, BareJson),
      Response(503, NotJson),
      TransportFailure("httpx.ConnectTimeout"),
      TransportFailure("httpx.ConnectError") }

BaseUrl(self) == <<"https://graph.facebook.com", self.api_version>>

Request(method, url, params, json) ==
    [method |-> method, url |-> url, params |-> params, json |-> json]

\* One request of an adapter, as every adapter method writes it:
\*     response = await client.post/get(...); response.raise_for_status()
\*     data = response.json()
\* inside try ... except httpx.HTTPStatusError as e:
\*     raise MetaMCPError(map_meta_api_error(e.response.status_code, e.response.json()), str(e))
Exchange(resp) ==
    IF resp.kind # "response" THEN Untyped(resp.kind, <<"transport failure">>)
    ELSE IF resp.status_code \in 200..299 THEN
        IF resp.body.json THEN Ok(resp.body)
        ELSE Untyped("json.JSONDecodeError", <<"response.json()">>)
    ELSE IF ~resp.body.json
        THEN Untyped("json.JSONDecodeError", <<"e.response.json()">>)
    ELSE Typed(map_meta_api_error(resp.status_code, resp.body),
               <<"HTTPStatusError", resp.status_code>>)

\* what an adapter method hands back: its outcome and the requests it issued
Did(out, requests) == [out |-> out, http |-> requests]

\* `x` when the exchange failed, else the value the method builds from the body
Extract(x, value) == IF x.status = "ok" THEN Ok(value) ELSE x

----------------------------------------------------------------------------
(* adapters/facebook.py *)

Facebook_send_message(self, recipient_id, content, media_url, resps) ==
    LET attachment == [type |-> "image",
                       payload |-> [url |-> media_url, is_reusable |-> TRUE]]
        message == IF TruthySeq(media_url)
                       THEN IF TruthyStr(content)
                                THEN [attachment |-> attachment, text |-> content]
                                ELSE [attachment |-> attachment]
                   ELSE [text |-> content]
        payload == [recipient |-> [id |-> recipient_id], message |-> message]
        req == Request("POST", BaseUrl(self) \o <<"me", "messages">>,
                       [access_token |-> self.access_token], payload)
        x == Exchange(resps[1])
    IN  Did(Extract(x, [message_id |-> x.value.message_id]), <<req>>)

\* history looked up by recipient when no conversation is named
Facebook_get_messages_by_recipient(self, conversation_id, recipient_id, limit, resps) ==
    IF ~TruthyStr(conversation_id) /\ ~TruthySeq(recipient_id)
        THEN Did(Typed(MISSING_IDENTIFIER,
                       <<"conversation_id is required for Facebook messages">>), <<>>)
    ELSE
        LET req == Request("GET",
                           BaseUrl(self) \o <<IF TruthyStr(conversation_id)
                                                  THEN conversation_id ELSE "me",
                                              "messages">>,
                           [access_token |-> self.access_token, limit |-> limit],
                           EmptyDict)
            x == Exchange(resps[1])
        IN  Did(Extract(x, IF x.value.data = NoneList THEN <<>> ELSE x.value.data),
                <<req>>)

Facebook_get_messages(self, conversation_id, recipient_id, limit, resps) ==
    IF ~TruthyStr(conversation_id)
        THEN Did(Typed(MISSING_IDENTIFIER,
                       <<"conversation_id is required for Facebook messages">>), <<>>)
    ELSE
        LET req == Request("GET", BaseUrl(self) \o <<conversation_id, "messages">>,
                           [access_token |-> self.access_token, limit |-> limit],
                           EmptyDict)
            x == Exchange(resps[1])
        IN  Did(Extract(x, IF x.value.data = NoneList THEN <<>> ELSE x.value.data),
                <<req>>)

Facebook_post_content(self, content, media_urls, target_id, resps) ==
    LET page_id == IF TruthyStr(target_id) THEN target_id ELSE "me"
        p1 == IF TruthyStr(content) THEN [message |-> content] ELSE EmptyDict
        p2 == IF TruthySeq(media_urls) /\ TruthySeq(media_urls[1])
                  THEN [link |-> media_urls[1]] ELSE EmptyDict
        req == Request("POST", BaseUrl(self) \o <<page_id, "feed">>,
                       [access_token |-> self.access_token], p1 @@ p2)
        x == Exchange(resps[1])
    IN  Did(Extract(x, [post_id |-> x.value.id]), <<req>>)

Facebook_get_analytics(self, metric, period, resps) ==
    LET req == Request("GET", BaseUrl(self) \o <<"me", "insights", metric>>,
                       [access_token |-> self.access_token, period |-> period],
                       EmptyDict)
        x == Exchange(resps[1])
    IN  Did(Extract(x, [metric |-> metric, period |-> period,
                        data |-> IF x.value.data = NoneList THEN <<>> ELSE x.value.data]),
            <<req>>)

----------------------------------------------------------------------------
(* adapters/instagram.py *)

Instagram_send_message(self, recipient_id, content, media_url, resps) ==
    LET message == IF TruthySeq(media_url)
                       THEN [attachment |-> [type |-> "image",
                                             payload |-> [url |-> media_url]]]
                   ELSE [text |-> content]
        payload == [recipient |-> [id |-> recipient_id], message |-> message]
        req == Request("POST", BaseUrl(self) \o <<"me", "messages">>,
                       [access_token |-> self.access_token], payload)
        x == Exchange(resps[1])
    IN  Did(Extract(x, [message_id |-> x.value.message_id]), <<req>>)

Instagram_get_messages(self, conversation_id, recipient_id, limit, resps) ==
    IF ~TruthyStr(conversation_id)
        THEN Did(Typed(MISSING_IDENTIFIER,
                       <<"conversation_id is required for Instagram messages">>), <<>>)
    ELSE
        LET req == Request("GET", BaseUrl(self) \o <<conversation_id, "messages">>,
                           [access_token |-> self.access_token, limit |-> limit],
                           EmptyDict)
            x == Exchange(resps[1])
        IN  Did(Extract(x, IF x.value.data = NoneList THEN <<>> ELSE x.value.data),
                <<req>>)

\* the two phases with a container id demanded between them
Instagram_post_content_requires_container_id(self, content, media_urls, target_id, resps) ==
    IF ~TruthySeq(media_urls) \/ ~TruthySeq(media_urls[1])
        THEN Did(Typed(MISSING_CONTENT, <<"Instagram posts require media_urls">>), <<>>)
    ELSE
        LET ig_user_id == IF TruthyStr(target_id) THEN target_id ELSE "me"
            container == Request("POST", BaseUrl(self) \o <<ig_user_id, "media">>,
                                 [access_token |-> self.access_token],
                                 [image_url |-> media_urls[1],
                                  caption |-> IF TruthyStr(content) THEN content ELSE ""])
            x1 == Exchange(resps[1])
            publish == Request("POST", BaseUrl(self) \o <<ig_user_id, "media_publish">>,
                               [access_token |-> self.access_token],
                               [creation_id |-> x1.value.id])
            x2 == Exchange(resps[2])
        IN  IF x1.status # "ok" THEN Did(x1, <<container>>)
            ELSE IF x1.value.id = NoneSeq
                THEN Did(Typed(MEDIA_UPLOAD_FAILED, <<"no container id">>), <<container>>)
            ELSE Did(Extract(x2, [post_id |-> x2.value.id]), <<container, publish>>)

\* the two phases in the opposite order
Instagram_post_content_publish_first(self, content, media_urls, target_id, resps) ==
    IF ~TruthySeq(media_urls) \/ ~TruthySeq(media_urls[1])
        THEN Did(Typed(MISSING_CONTENT, <<"Instagram posts require media_urls">>), <<>>)
    ELSE
        LET ig_user_id == IF TruthyStr(target_id) THEN target_id ELSE "me"
            container == Request("POST", BaseUrl(self) \o <<ig_user_id, "media">>,
                                 [access_token |-> self.access_token],
                                 [image_url |-> media_urls[1],
                                  caption |-> IF TruthyStr(content) THEN content ELSE ""])
            x1 == Exchange(resps[1])
            publish == Request("POST", BaseUrl(self) \o <<ig_user_id, "media_publish">>,
                               [access_token |-> self.access_token],
                               [creation_id |-> x1.value.id])
            x2 == Exchange(resps[2])
        IN  IF x1.status # "ok" THEN Did(x1, <<container>>)
            ELSE Did(Extract(x2, [post_id |-> x2.value.id]), <<publish, container>>)

\* the two phases without the media check in front of them
Instagram_post_content_unchecked(self, content, media_urls, target_id, resps) ==
    LET ig_user_id == IF TruthyStr(target_id) THEN target_id ELSE "me"
        container == Request("POST", BaseUrl(self) \o <<ig_user_id, "media">>,
                             [access_token |-> self.access_token],
                             [image_url |-> IF TruthySeq(media_urls) THEN media_urls[1]
                                            ELSE NoneSeq,
                              caption |-> IF TruthyStr(content) THEN content ELSE ""])
        x1 == Exchange(resps[1])
        publish == Request("POST", BaseUrl(self) \o <<ig_user_id, "media_publish">>,
                           [access_token |-> self.access_token],
                           [creation_id |-> x1.value.id])
        x2 == Exchange(resps[2])
    IN  IF x1.status # "ok" THEN Did(x1, <<container>>)
        ELSE Did(Extract(x2, [post_id |-> x2.value.id]), <<container, publish>>)

\* the two phases without the dependency of the second on the first
Instagram_post_content_publish_always(self, content, media_urls, target_id, resps) ==
    IF ~TruthySeq(media_urls) \/ ~TruthySeq(media_urls[1])
        THEN Did(Typed(MISSING_CONTENT, <<"Instagram posts require media_urls">>), <<>>)
    ELSE
        LET ig_user_id == IF TruthyStr(target_id) THEN target_id ELSE "me"
            container == Request("POST", BaseUrl(self) \o <<ig_user_id, "media">>,
                                 [access_token |-> self.access_token],
                                 [image_url |-> media_urls[1],
                                  caption |-> IF TruthyStr(content) THEN content ELSE ""])
            x1 == Exchange(resps[1])
            publish == Request("POST", BaseUrl(self) \o <<ig_user_id, "media_publish">>,
                               [access_token |-> self.access_token],
                               [creation_id |-> IF x1.status = "ok" THEN x1.value.id
                                                ELSE NoneSeq])
            x2 == Exchange(resps[2])
        IN  IF x1.status # "ok" THEN Did(x1, <<container, publish>>)
            ELSE Did(Extract(x2, [post_id |-> x2.value.id]), <<container, publish>>)

Instagram_post_content(self, content, media_urls, target_id, resps) ==
    IF ~TruthySeq(media_urls) \/ ~TruthySeq(media_urls[1])
        THEN Did(Typed(MISSING_CONTENT, <<"Instagram posts require media_urls">>), <<>>)
    ELSE
        LET ig_user_id == IF TruthyStr(target_id) THEN target_id ELSE "me"
            container == Request("POST", BaseUrl(self) \o <<ig_user_id, "media">>,
                                 [access_token |-> self.access_token],
                                 [image_url |-> media_urls[1],
                                  caption |-> IF TruthyStr(content) THEN content ELSE ""])
            x1 == Exchange(resps[1])
            publish == Request("POST", BaseUrl(self) \o <<ig_user_id, "media_publish">>,
                               [access_token |-> self.access_token],
                               [creation_id |-> x1.value.id])
            x2 == Exchange(resps[2])
        IN  IF x1.status # "ok" THEN Did(x1, <<container>>)
            ELSE Did(Extract(x2, [post_id |-> x2.value.id]), <<container, publish>>)

Instagram_get_analytics(self, metric, period, resps) ==
    LET req == Request("GET", BaseUrl(self) \o <<"me", "insights">>,
                       [access_token |-> self.access_token, metric |-> metric,
                        period |-> period],
                       EmptyDict)
        x == Exchange(resps[1])
    IN  Did(Extract(x, [metric |-> metric, period |-> period,
                        data |-> IF x.value.data = NoneList THEN <<>> ELSE x.value.data]),
            <<req>>)

----------------------------------------------------------------------------
(* adapters/whatsapp.py *)

\* the message id read where the Facebook and Instagram adapters read it
WhatsApp_send_message_top_level_id(self, recipient_id, content, media_url, resps) ==
    LET payload == IF TruthySeq(media_url)
                       THEN [messaging_product |-> "whatsapp", to |-> recipient_id,
                             type |-> "image", image |-> [link |-> media_url]]
                   ELSE [messaging_product |-> "whatsapp", to |-> recipient_id,
                         type |-> "text", text |-> [body |-> content]]
        req == Request("POST", BaseUrl(self) \o <<self.phone_number_id, "messages">>,
                       [access_token |-> self.access_token], payload)
        x == Exchange(resps[1])
    IN  Did(Extract(x, [message_id |-> x.value.message_id]), <<req>>)

WhatsApp_send_message(self, recipient_id, content, media_url, resps) ==
    LET payload == IF TruthySeq(media_url)
                       THEN [messaging_product |-> "whatsapp", to |-> recipient_id,
                             type |-> "image", image |-> [link |-> media_url]]
                   ELSE [messaging_product |-> "whatsapp", to |-> recipient_id,
                         type |-> "text", text |-> [body |-> content]]
        req == Request("POST", BaseUrl(self) \o <<self.phone_number_id, "messages">>,
                       [access_token |-> self.access_token], payload)
        x == Exchange(resps[1])
        messages == IF x.value.messages = NoneList THEN <<>> ELSE x.value.messages
    IN  \* messages[0]["id"] if messages else "unknown"
        IF x.status = "ok" /\ Len(messages) > 0 /\ messages[1] = NoId
            THEN Did(Untyped("KeyError", <<"id">>), <<req>>)
        ELSE Did(Extract(x, [message_id |-> IF Len(messages) > 0 THEN messages[1]
                                            ELSE <<"unknown">>]),
                 <<req>>)

WhatsApp_get_messages_with_conversation(self, conversation_id, recipient_id, limit, resps) ==
    IF ~TruthyStr(conversation_id)
        THEN Did(PlatformNotSupportedError("whatsapp", "get_messages"), <<>>)
    ELSE
        LET req == Request("GET", BaseUrl(self) \o <<conversation_id, "messages">>,
                           [access_token |-> self.access_token, limit |-> limit],
                           EmptyDict)
            x == Exchange(resps[1])
        IN  Did(Extract(x, IF x.value.data = NoneList THEN <<>> ELSE x.value.data),
                <<req>>)

WhatsApp_get_messages(self, conversation_id, recipient_id, limit, resps) ==
    Did(PlatformNotSupportedError("whatsapp", "get_messages"), <<>>)

WhatsApp_post_content(self, content, media_urls, target_id, resps) ==
    Did(PlatformNotSupportedError("whatsapp", "post_content"), <<>>)

WhatsApp_get_analytics(self, metric, period, resps) ==
    Did(PlatformNotSupportedError("whatsapp", "get_analytics"), <<>>)

----------------------------------------------------------------------------
(* adapters/mock.py *)

\* datetime.now().timestamp(), as text
Now == "1762293600.0"

Min(a, b) == IF a < b THEN a ELSE b

\* readings of datetime.now().timestamp() taken by successive calls
ClockReadings == {Now, "1762293600.1"}

\* send_message when the clock reads `now` after the simulated delay
Mock_send_message_at(self, recipient_id, content, media_url, now) ==
    Did(Ok([message_id |-> <<"mock_msg_">> \o recipient_id \o <<"_", now>>]), <<>>)

Mock_send_message(self, recipient_id, content, media_url, resps) ==
    Mock_send_message_at(self, recipient_id, content, media_url, Now)

\* one record for each of the `limit` messages asked for
Mock_get_messages_uncapped(self, conversation_id, recipient_id, limit, resps) ==
    Did(Ok([i \in 1..limit |->
               [id |-> <<"mock_msg_", i - 1>>, from |-> <<"user_", i - 1>>,
                to |-> "page_demo", message |-> <<"This is mock message #", i>>]]),
        <<>>)

Mock_get_messages(self, conversation_id, recipient_id, limit, resps) ==
    \* for i in range(min(limit, 3)): an empty range when the bound is <= 0
    Did(Ok([i \in 1..Min(limit, 3) |->
               [id |-> <<"mock_msg_", i - 1>>, from |-> <<"user_", i - 1>>,
                to |-> "page_demo", message |-> <<"This is mock message #", i>>]]),
        <<>>)

Mock_post_content(self, content, media_urls, target_id, resps) ==
    Did(Ok([post_id |-> <<"mock_post_", Now>>]), <<>>)

Mock_get_analytics(self, metric, period, resps) ==
    Did(Ok([metric |-> metric, period |-> period,
            data |-> << <<"hash % 10000", metric, period>> >>]), <<>>)

----------------------------------------------------------------------------
(* adapters/base.py: the four operations, dispatched on the variant *)

send_message(self, recipient_id, content, media_url, resps) ==
    CASE self.kind = "facebook" ->
            Facebook_send_message(self, recipient_id, content, media_url, resps)
      [] self.kind = "instagram" ->
            Instagram_send_message(self, recipient_id, content, media_url, resps)
      [] self.kind = "whatsapp" ->
            WhatsApp_send_message(self, recipient_id, content, media_url, resps)
      [] self.kind = "mock" ->
            Mock_send_message(self, recipient_id, content, media_url, resps)

get_messages(self, conversation_id, recipient_id, limit, resps) ==
    CASE self.kind = "facebook" ->
            Facebook_get_messages(self, conversation_id, recipient_id, limit, resps)
      [] self.kind = "instagram" ->
            Instagram_get_messages(self, conversation_id, recipient_id, limit, resps)
      [] self.kind = "whatsapp" ->
            WhatsApp_get_messages(self, conversation_id, recipient_id, limit, resps)
      [] self.kind = "mock" ->
            Mock_get_messages(self, conversation_id, recipient_id, limit, resps)

post_content(self, content, media_urls, target_id, resps) ==
    CASE self.kind = "facebook" ->
            Facebook_post_content(self, content, media_urls, target_id, resps)
      [] self.kind = "instagram" ->
            Instagram_post_content(self, content, media_urls, target_id, resps)
      [] self.kind = "whatsapp" ->
            WhatsApp_post_content(self, content, media_urls, target_id, resps)
      [] self.kind = "mock" ->
            Mock_post_content(self, content, media_urls, target_id, resps)

get_analytics(self, metric, period, resps) ==
    CASE self.kind = "facebook" -> Facebook_get_analytics(self, metric, period, resps)
      [] self.kind = "instagram" -> Instagram_get_analytics(self, metric, period, resps)
      [] self.kind = "whatsapp" -> WhatsApp_get_analytics(self, metric, period, resps)
      [] self.kind = "mock" -> Mock_get_analytics(self, metric, period, resps)

----------------------------------------------------------------------------
(* meta_client.py *)

\* MetaClient.__init__ copies the API version out of the settings
MetaClient_api_version(s) == s.meta_api_version

get_adapter_config_before_demo(s, platform) ==
    IF get_platform_token(s, platform) = None
        THEN AuthenticationError(<<"not configured", platform>>)
    ELSE IF s.demo_mode THEN Ok(MockPlatformAdapter("demo", platform))
    ELSE Ok(FacebookAdapter(get_platform_token(s, platform), MetaClient_api_version(s)))

get_adapter_shared_token(s, platform) ==
    IF s.demo_mode THEN Ok(MockPlatformAdapter("demo", platform))
    ELSE IF ~validate_platform_config(s, platform)
        THEN AuthenticationError(<<"not configured", platform>>)
    ELSE LET token == get_platform_token(s, "facebook")
         IN  IF platform = "facebook"
                 THEN Ok(FacebookAdapter(token, MetaClient_api_version(s)))
             ELSE IF platform = "instagram"
                 THEN Ok(InstagramAdapter(token, MetaClient_api_version(s)))
             ELSE Ok(WhatsAppAdapter(token, s.whatsapp_phone_number_id,
                                     MetaClient_api_version(s)))

get_adapter(s, platform) ==
    IF s.demo_mode THEN Ok(MockPlatformAdapter("demo", platform))
    ELSE IF ~validate_platform_config(s, platform)
        THEN AuthenticationError(<<"not configured", platform>>)
    ELSE LET token == get_platform_token(s, platform)
         IN  IF token = None
                 THEN AuthenticationError(<<"no access token", platform>>)
             ELSE IF platform = "facebook"
                 THEN Ok(FacebookAdapter(token, MetaClient_api_version(s)))
             ELSE IF platform = "instagram"
                 THEN Ok(InstagramAdapter(token, MetaClient_api_version(s)))
             ELSE IF platform = "whatsapp"
                 THEN Ok(WhatsAppAdapter(token, s.whatsapp_phone_number_id,
                                         MetaClient_api_version(s)))
             ELSE Typed(INVALID_PLATFORM, <<"Unknown platform", platform>>)

\* the object a constructor call of get_adapter puts on the heap, and the
\* reference the caller holds: every construction makes a new object
new_instance_shared(h, a) ==
    IF \E j \in 1..Len(h) : h[j] = a
        THEN [heap |-> h, ref |-> CHOOSE j \in 1..Len(h) : h[j] = a]
    ELSE [heap |-> Append(h, a), ref |-> Len(h) + 1]

new_instance(h, a) == [heap |-> Append(h, a), ref |-> Len(h) + 1]

\* @retry(stop=stop_after_attempt(3),
\*        wait=wait_exponential(multiplier=1, min=1, max=10), reraise=True)
max_attempt_number == 3
wait_multiplier == 1
wait_min == 1
wait_max == 10

\* the stop condition one attempt early
stop_after_attempt_two(attempt_number) == attempt_number >= max_attempt_number - 1

stop_after_attempt(attempt_number) == attempt_number >= max_attempt_number

Max(a, b) == IF a > b THEN a ELSE b

\* the same backoff with the exponent one too high
wait_exponential_from_two(attempt_number) ==
    Max(Max(0, wait_min), Min(wait_multiplier * 2 ^ attempt_number, wait_max))

\* tenacity: max(max(0, min), min(multiplier * 2 ** (attempt_number - 1), max))
wait_exponential(attempt_number) ==
    Max(Max(0, wait_min), Min(wait_multiplier * 2 ^ (attempt_number - 1), wait_max))

\* the function under the decorator: one attempt
send_message_attempt(s, platform, recipient_id, content, media_url, resps) ==
    LET adapter == get_adapter(s, platform)
        r == send_message(adapter.value, recipient_id, content, media_url, resps)
    IN  IF adapter.status # "ok" THEN [out |-> adapter, http |-> <<>>, adapter |-> adapter]
        ELSE [out |-> r.out, http |-> r.http, adapter |-> adapter]

\* the requests of the attempts att[i..], in order
RECURSIVE AttemptRequests(_, _)
AttemptRequests(att, i) ==
    IF i > Len(att) THEN <<>> ELSE att[i].http \o AttemptRequests(att, i + 1)

\* tenacity's loop from attempt attempt_number on, `done` being the attempts
\* made so far: an attempt that raises (any Exception) is followed by a sleep
\* and another attempt unless the stop condition holds
RECURSIVE Retrying(_, _, _, _, _, _, _, _)
Retrying(s, platform, recipient_id, content, media_url, resps, attempt_number, done) ==
    LET served == Len(AttemptRequests(done, 1))
        Record(a) ==
            LET again == a.out.status # "ok" /\ ~stop_after_attempt(attempt_number)
            IN  [ attempt_number |-> attempt_number, adapter |-> a.adapter,
                  out |-> a.out, http |-> a.http, slept |-> again,
                  wait |-> IF again THEN wait_exponential(attempt_number) ELSE 0 ]
        \* the attempt is made once, and its record is what the loop goes on with
        rec == CHOOSE r \in
                   { Record(a) :
                       a \in {send_message_attempt(s, platform, recipient_id, content,
                                                   media_url,
                                                   SubSeq(resps, served + 1, Len(resps)))} } :
                   TRUE
        so_far == CHOOSE d \in {Append(done, rec)} : TRUE
    IN  IF so_far[Len(so_far)].slept
            THEN Retrying(s, platform, recipient_id, content, media_url, resps,
                          attempt_number + 1, so_far)
        ELSE so_far

\* the same policy with reraise left at its default: the last failure comes
\* back wrapped
send_message_with_retry_wrapped(s, platform, recipient_id, content, media_url, resps) ==
    LET att == Retrying(s, platform, recipient_id, content, media_url, resps, 1, <<>>)
        last == att[Len(att)]
    IN  [ out |-> IF last.out.status # "ok"
                      THEN Untyped("tenacity.RetryError", <<"RetryError">>)
                  ELSE last.out,
          http |-> AttemptRequests(att, 1), attempts |-> att ]

\* reraise=True: the outcome of the call is the outcome of its last attempt
send_message_with_retry(s, platform, recipient_id, content, media_url, resps) ==
    LET att == Retrying(s, platform, recipient_id, content, media_url, resps, 1, <<>>)
        last == att[Len(att)]
    IN  [out |-> last.out, http |-> AttemptRequests(att, 1), attempts |-> att]

----------------------------------------------------------------------------
(* models.py: the two envelopes *)

\* datetime.now(timezone.utc), the default of both timestamp fields
UtcNow == "2026-11-04T22:00:00Z"

\* MetaResponse(...).model_dump_json() in a one-element list of TextContent;
\* pydantic rejects a platform that is no value of the Platform enumeration
MetaResponse(success, platform, data, message) ==
    IF platform \in Platform
        THEN Ok(<< [success |-> success, platform |-> platform, data |-> data,
                    message |-> message, timestamp |-> UtcNow] >>)
    ELSE Untyped("pydantic.ValidationError", <<"MetaResponse", "platform">>)

\* MetaError(...): platform is Platform | Literal["unknown"]
MetaError(error_code, error_message, platform) ==
    IF platform \in Platform \cup {"unknown"}
        THEN Ok(<< [error_code |-> error_code, error_message |-> error_message,
                    platform |-> platform, details |-> None,
                    timestamp |-> UtcNow] >>)
    ELSE Untyped("pydantic.ValidationError", <<"MetaError", "platform">>)

----------------------------------------------------------------------------
(* server.py *)

\* how the try block of a handler ended: at which stage, with which outcome,
\* after which requests, on which adapter
Stage(stage, inner, requests, adapter) ==
    [stage |-> stage, inner |-> inner, http |-> requests, adapter |-> adapter]

\* args[k] of an absent key, before the try block
KeyError(k) == Stage("arguments", Untyped("KeyError", <<k>>), <<>>, NoAdapter)

\* the handler's return or raise: the success envelope, the error envelope of
\* `except MetaMCPError`, or the exception neither of them stops
Handled_generic_code(platform, body, message) ==
    [ out |-> IF body.stage = "arguments" THEN body.inner
              ELSE IF body.inner.status = "ok"
                  THEN MetaResponse(TRUE, platform, body.inner.value, message)
              ELSE IF body.inner.status = "typed"
                  THEN MetaError(API_ERROR, body.inner.message, platform)
              ELSE body.inner,
      stage |-> body.stage, inner |-> body.inner, http |-> body.http,
      adapter |-> body.adapter ]

Handled(platform, body, message) ==
    [ out |-> IF body.stage = "arguments" THEN body.inner
              ELSE IF body.inner.status = "ok"
                  THEN MetaResponse(TRUE, platform, body.inner.value, message)
              ELSE IF body.inner.status = "typed"
                  THEN MetaError(body.inner.code, body.inner.message, platform)
              ELSE body.inner,
      stage |-> body.stage, inner |-> body.inner, http |-> body.http,
      adapter |-> body.adapter ]

handle_send_message(s, args, resps) ==
    IF ~Has(args, "platform") THEN Handled(None, KeyError("platform"), None)
    ELSE IF ~Has(args, "recipient_id") THEN Handled(None, KeyError("recipient_id"), None)
    ELSE IF ~Has(args, "content") THEN Handled(None, KeyError("content"), None)
    ELSE
        LET platform == args["platform"]
            recipient_id == args["recipient_id"]
            content == args["content"]
            media_url == Get(args, "media_url", NoneSeq)
            v == IF platform = "whatsapp" THEN validate_whatsapp_recipient(recipient_id)
                 ELSE Ok(None)
            a == get_adapter(s, platform)
            r == send_message(a.value, recipient_id, content, media_url, resps)
        IN  Handled(platform,
                    IF v.status # "ok" THEN Stage("validator", v, <<>>, NoAdapter)
                    ELSE IF a.status # "ok" THEN Stage("dispatcher", a, <<>>, NoAdapter)
                    ELSE Stage("adapter", r.out, r.http, a.value),
                    "Message sent successfully")

handle_get_messages(s, args, resps) ==
    IF ~Has(args, "platform") THEN Handled(None, KeyError("platform"), None)
    ELSE
        LET platform == args["platform"]
            conversation_id == Get(args, "conversation_id", None)
            recipient_id == Get(args, "recipient_id", NoneSeq)
            limit == Get(args, "limit", 10)
            v == validate_get_messages_request(conversation_id, recipient_id)
            a == get_adapter(s, platform)
            r == get_messages(a.value, conversation_id, recipient_id, limit, resps)
        IN  Handled(platform,
                    IF v.status # "ok" THEN Stage("validator", v, <<>>, NoAdapter)
                    ELSE IF a.status # "ok" THEN Stage("dispatcher", a, <<>>, NoAdapter)
                    ELSE Stage("adapter", r.out, r.http, a.value),
                    "Retrieved messages")

handle_post_content(s, args, resps) ==
    IF ~Has(args, "platform") THEN Handled(None, KeyError("platform"), None)
    ELSE
        LET platform == args["platform"]
            content == Get(args, "content", None)
            media_urls == Get(args, "media_urls", NoneList)
            target_id == Get(args, "target_id", None)
            v == validate_post_content_request(platform, content, media_urls)
            a == get_adapter(s, platform)
            r == post_content(a.value, content, media_urls, target_id, resps)
        IN  Handled(platform,
                    IF v.status # "ok" THEN Stage("validator", v, <<>>, NoAdapter)
                    ELSE IF a.status # "ok" THEN Stage("dispatcher", a, <<>>, NoAdapter)
                    ELSE Stage("adapter", r.out, r.http, a.value),
                    "Content posted successfully")

handle_get_analytics(s, args, resps) ==
    IF ~Has(args, "platform") THEN Handled(None, KeyError("platform"), None)
    ELSE IF ~Has(args, "metric") THEN Handled(None, KeyError("metric"), None)
    ELSE
        LET platform == args["platform"]
            metric == args["metric"]
            period == Get(args, "period", "day")
            a == get_adapter(s, platform)
            r == get_analytics(a.value, metric, period, resps)
        IN  Handled(platform,
                    IF a.status # "ok" THEN Stage("dispatcher", a, <<>>, NoAdapter)
                    ELSE Stage("adapter", r.out, r.http, a.value),
                    "Analytics retrieved successfully")

\* the part of a handler that follows the dispatcher: the await of the
\* adapter method on the adapter the handler holds, the envelope built from its
\* outcome, and call_tool's catch-all around the handler
call_tool_on_adapter(self, name, arguments, resps) ==
    LET r == CASE name = "meta_send_message" ->
                    send_message(self, arguments["recipient_id"], arguments["content"],
                                 Get(arguments, "media_url", NoneSeq), resps)
               [] name = "meta_get_messages" ->
                    get_messages(self, Get(arguments, "conversation_id", None),
                                 Get(arguments, "recipient_id", NoneSeq),
                                 Get(arguments, "limit", 10), resps)
               [] name = "meta_post_content" ->
                    post_content(self, Get(arguments, "content", None),
                                 Get(arguments, "media_urls", NoneList),
                                 Get(arguments, "target_id", None), resps)
               [] name = "meta_get_analytics" ->
                    get_analytics(self, arguments["metric"],
                                  Get(arguments, "period", "day"), resps)
        message == CASE name = "meta_send_message" -> "Message sent successfully"
                     [] name = "meta_get_messages" -> "Retrieved messages"
                     [] name = "meta_post_content" -> "Content posted successfully"
                     [] name = "meta_get_analytics" -> "Analytics retrieved successfully"
        h == Handled(arguments["platform"], Stage("adapter", r.out, r.http, self), message)
    IN  [ out |-> IF h.out.status # "ok"
                      THEN MetaError("EXECUTION_ERROR", h.out.message,
                                     Get(arguments, "platform", "unknown"))
                  ELSE h.out,
          http |-> h.http ]

ToolNames ==
    {"meta_send_message", "meta_get_messages", "meta_post_content", "meta_get_analytics"}

\* the "required" list of each tool's inputSchema
RequiredArgs(name) ==
    CASE name = "meta_send_message" -> {"platform", "recipient_id", "content"}
      [] name = "meta_get_messages" -> {"platform"}
      [] name = "meta_post_content" -> {"platform"}
      [] name = "meta_get_analytics" -> {"platform", "metric"}
      [] OTHER -> {}

\* call_tool: `out` is what the host receives (a list of one TextContent, or
\* the exception that escapes), `handler` what the handler returned or raised
call_tool(s, name, arguments, resps) ==
    LET h == CASE name = "meta_send_message" -> handle_send_message(s, arguments, resps)
               [] name = "meta_get_messages" -> handle_get_messages(s, arguments, resps)
               [] name = "meta_post_content" -> handle_post_content(s, arguments, resps)
               [] name = "meta_get_analytics" -> handle_get_analytics(s, arguments, resps)
               [] OTHER ->
                    [ out |-> MetaError("UNKNOWN_TOOL", <<"Unknown tool", name>>, "unknown"),
                      stage |-> "none", inner |-> Idle, http |-> <<>>,
                      adapter |-> NoAdapter ]
    IN  [ out |-> IF name \in ToolNames /\ h.out.status # "ok"
                      THEN MetaError("EXECUTION_ERROR", h.out.message,
                                     Get(arguments, "platform", "unknown"))
                  ELSE h.out,
          handler |-> IF name \in ToolNames THEN h.out ELSE Idle,
          stage |-> h.stage, inner |-> h.inner, http |-> h.http,
          adapter |-> h.adapter ]

----------------------------------------------------------------------------
(* inputs *)

\* platform names a caller may pass: the three of the enumeration, the
\* literal "unknown" and a name outside both
PlatformArgs == Platform \cup {"twitter", "unknown"}

RecipientIds ==
    { <<"+", "3", "8", "0", "9", "9", "1", "2", "3", "4", "5", "6", "7">>,
      <<"3", "8", "0", "9", "9", "1", "2", "3", "4", "5", "6", "7">>,
      <<"p", "s", "i", "d">>,
      <<"+", "1", "2", "\n">>,
      <<>> }
Contents == {"", "hi"}
GoodUrl == <<"https", "://", "example.com", "/x.jpg">>
FtpUrl == <<"ftp", "://", "example.com">>
MediaUrls == {GoodUrl, FtpUrl}
MediaUrlLists == { <<>>, <<GoodUrl>>, <<FtpUrl>>, << <<>> >>, <<GoodUrl, FtpUrl>> }
ConversationIds == {"", "t_1"}
Limits == {0, 1, 5, 101}
TargetIds == {"page_1"}
Metrics == {"reach", "bogus"}
Periods == {"day", "year"}

SendMessageArgs ==
    { a @@ b @@ c @@ d :
        a \in Opt("platform", PlatformArgs), b \in Opt("recipient_id", RecipientIds),
        c \in Opt("content", Contents), d \in Opt("media_url", MediaUrls) }

GetMessagesArgs ==
    { a @@ b @@ c @@ d :
        a \in Opt("platform", PlatformArgs), b \in Opt("conversation_id", ConversationIds),
        c \in Opt("recipient_id", RecipientIds), d \in Opt("limit", Limits) }

PostContentArgs ==
    { a @@ b @@ c @@ d :
        a \in Opt("platform", PlatformArgs), b \in Opt("content", Contents),
        c \in Opt("media_urls", MediaUrlLists), d \in Opt("target_id", TargetIds) }

GetAnalyticsArgs ==
    { a @@ b @@ c :
        a \in Opt("platform", PlatformArgs), b \in Opt("metric", Metrics),
        c \in Opt("period", Periods) }

\* adapters built directly, as the tests build them
Adapters ==
    { FacebookAdapter("test_token", "v21.0"), InstagramAdapter("test_token", "v21.0"),
      WhatsAppAdapter("test_token", "12345", "v21.0"),
      MockPlatformAdapter("demo_token", "mock") }

\* the response sequences a call may be served: a second response is served
\* only to a call whose first request got a 2xx answer
Succeeded(r) == r.kind = "response" /\ r.status_code \in 200..299
Runs1 == {<<r>> : r \in Responses}
Runs2 ==
    {<<r, r>> : r \in {x \in Responses : ~Succeeded(x)}}
        \cup {<<r1, r2>> : r1 \in {x \in Responses : Succeeded(x)}, r2 \in Responses}

\* the responses served to the attempts of a retried call: another response
\* is served only after a failed one
RetryResponses ==
    { Response(200, FullJson), Response(201, EmptyListsJson), Response(400, BareJson),
      Response(401, ErrorJson(<<"OAuthException">>, <<"Invalid", " token">>)),
      Response(429, BareJson), Response(500, BareJson),
      TransportFailure("httpx.ConnectTimeout") }
Runs3 ==
    LET good == {r \in RetryResponses : Succeeded(r)}
        bad == RetryResponses \ good
    IN  {<<r>> : r \in good}
            \cup {<<r1, r2>> : r1 \in bad, r2 \in good}
            \cup {<<r1, r2, r3>> : r1 \in bad, r2 \in bad, r3 \in RetryResponses}

\* inputs of validate_e164_phone
Phones ==
    { <<"+", "3", "8", "0", "9", "9", "1", "2", "3", "4", "5", "6", "7">>,
      <<"+", "1", "2">>,
      <<"+", "1">>,
      <<"+">>,
      <<"+", "1", "2", "3", "4", "5", "6", "7", "8", "9", "0", "1", "2", "3", "4", "5">>,
      <<"+", "1", "2", "3", "4", "5", "6", "7", "8", "9", "0", "1", "2", "3", "4", "5", "6">>,
      <<"3", "8", "0", "9", "9", "1", "2", "3", "4", "5", "6", "7">>,
      <<"+", "0", "9", "9", "1", "2", "3", "4", "5", "6", "7">>,
      <<"i", "n", "v", "a", "l", "i", "d">>,
      <<>>,
      <<"+", "1", "2", "\n">>,
      <<"+", "1", "2", "\n", "\n">>,
      <<"\n", "+", "1", "2">>,
      <<"+", "1", "U+0663">>,
      <<"+", "U+0663", "1">>,
      <<" ", "+", "1", "2">>,
      <<"+", "1", "2", " ">>,
      <<"+", "1", "-", "2">>,
      <<"+", "+", "1", "2">> }

\* arguments of the calls made on an adapter directly
DirectRecipientIds ==
    { <<"+", "3", "8", "0", "9", "9", "1", "2", "3", "4", "5", "6", "7">>,
      <<"p", "s", "i", "d">> }
DirectMediaUrlLists == { NoneList, <<>>, <<GoodUrl>>, << <<>> >> }

\* limits passed to an adapter's get_messages directly
DirectLimits == {0, 1, 2, 3, 4, 5, 10, 100, 101}

\* inputs of the two Instagram media checks
CheckContents == {None, "", "hi"}
CheckMediaUrlLists ==
    { NoneList, <<>>, <<GoodUrl>>, <<FtpUrl>>, << <<>> >>, <<GoodUrl, <<>> >>,
      << <<>>, GoodUrl>>, <<GoodUrl, FtpUrl>>, <<GoodUrl, GoodUrl>> }

\* the tool calls in flight at once
MaxCalls == 2
CallIds == 1..MaxCalls
NoCall ==
    [ pc |-> "idle", name |-> None, args |-> EmptyDict, ref |-> 0, built |-> NoAdapter,
      seen |-> None, http |-> <<>>, replies |-> <<>>, out |-> Idle ]

\* a response that has not arrived: the coroutine is suspended on it
Pending == TransportFailure("pending")

\* the calls made concurrently and the responses their requests may get
ConcurrentCalls ==
    { [name |-> "meta_post_content",
       args |-> ("platform" :> "instagram") @@ ("content" :> "hi")
                    @@ ("media_urls" :> <<GoodUrl>>)],
      [name |-> "meta_post_content",
       args |-> ("platform" :> "instagram") @@ ("content" :> "hi")],
      [name |-> "meta_send_message",
       args |-> ("platform" :> "facebook") @@ ("recipient_id" :> <<"p", "s", "i", "d">>)
                    @@ ("content" :> "hi")],
      [name |-> "meta_send_message",
       args |-> ("platform" :> "whatsapp")
                    @@ ("recipient_id" :> <<"+", "1", "2">>) @@ ("content" :> "hi")],
      [name |-> "meta_get_messages",
       args |-> ("platform" :> "facebook") @@ ("conversation_id" :> "t_1")] }
ConcurrentResponses ==
    { Response(200, FullJson), Response(500, BareJson),
      TransportFailure("httpx.ConnectTimeout") }

\* inputs of map_meta_api_error
StatusCodes == {200, 302, 400, 401, 403, 404, 429, 499, 500, 502, 599}
ErrorTypes ==
    { NoneSeq, <<>>, <<"OAuthException">>, <<"Graph", "OAuthException", "V2">>,
      <<"oauthexception">>, <<"GraphMethodException">> }
ErrorMessages ==
    { NoneSeq, <<>>, <<"Permission", " denied">>, <<"no ", "permission">>,
      <<"PERMISSION">>, <<"Invalid", " parameter">> }
Payloads ==
    {BareJson} \cup {ErrorJson(t, m) : t \in ErrorTypes, m \in ErrorMessages}

----------------------------------------------------------------------------
(* steps *)

NoTrace == [stage |-> "none", inner |-> Idle, handler |-> Idle, adapter |-> NoAdapter]
NoOp == [layer |-> "none", name |-> None, args |-> EmptyDict]

Init ==
    /\ settings \in SettingsSpace
    /\ op = NoOp
    /\ result = Idle
    /\ http = <<>>
    /\ replies = <<>>
    /\ trace = NoTrace
    /\ attempts = <<>>
    /\ calls = [i \in CallIds |-> NoCall]
    /\ heap = <<>>

\* one call of call_tool, served the responses resps
Invoke(name, arguments, resps) ==
    \E c \in {call_tool(settings, name, arguments, resps)} :
        /\ op' = [layer |-> "tool", name |-> name, args |-> arguments]
        /\ result' = c.out
        /\ http' = c.http
        /\ replies' = SubSeq(resps, 1, Len(c.http))
        /\ trace' = [stage |-> c.stage, inner |-> c.inner, handler |-> c.handler,
                     adapter |-> c.adapter]
        /\ attempts' = <<>>
        /\ UNCHANGED <<settings, calls, heap>>

SendMessageTool ==
    /\ result = Idle
    /\ \E args \in SendMessageArgs, rs \in Runs1 :
           Invoke("meta_send_message", args, rs)

GetMessagesTool ==
    /\ result = Idle
    /\ \E args \in GetMessagesArgs, rs \in Runs1 :
           Invoke("meta_get_messages", args, rs)

PostContentTool ==
    /\ result = Idle
    /\ \E args \in PostContentArgs, rs \in Runs2 :
           Invoke("meta_post_content", args, rs)

GetAnalyticsTool ==
    /\ result = Idle
    /\ \E args \in GetAnalyticsArgs, rs \in Runs1 :
           Invoke("meta_get_analytics", args, rs)

UnknownTool ==
    /\ result = Idle
    /\ \E name \in {"meta_delete_message", ""}, args \in GetAnalyticsArgs :
           Invoke(name, args, <<>>)

\* one call made on an adapter or on the dispatcher directly
Direct(layer, name, args, did) ==
    /\ op' = [layer |-> layer, name |-> name, args |-> args]
    /\ result' = did.out
    /\ http' = did.http
    /\ trace' = NoTrace
    /\ attempts' = <<>>
    /\ UNCHANGED <<settings, calls, heap>>

\* MetaClient.get_adapter called by itself
GetAdapter ==
    /\ result = Idle
    /\ \E p \in PlatformArgs :
           /\ Direct("dispatcher", "get_adapter", [platform |-> p],
                     Did(get_adapter(settings, p), <<>>))
           /\ replies' = <<>>

AdapterSendMessage ==
    /\ result = Idle
    /\ \E self \in Adapters, rid \in DirectRecipientIds, c \in Contents,
          m \in MediaUrls \cup {NoneSeq}, rs \in Runs1 :
           \E did \in {send_message(self, rid, c, m, rs)} :
               /\ Direct("adapter", "send_message",
                         [self |-> self, recipient_id |-> rid, content |-> c,
                          media_url |-> m], did)
               /\ replies' = SubSeq(rs, 1, Len(did.http))

AdapterGetMessages ==
    /\ result = Idle
    /\ \E self \in Adapters, cid \in ConversationIds \cup {None},
          rid \in {NoneSeq, <<"p", "s", "i", "d">>}, l \in DirectLimits, rs \in Runs1 :
           \E did \in {get_messages(self, cid, rid, l, rs)} :
               /\ Direct("adapter", "get_messages",
                         [self |-> self, conversation_id |-> cid, recipient_id |-> rid,
                          limit |-> l], did)
               /\ replies' = SubSeq(rs, 1, Len(did.http))

AdapterPostContent ==
    /\ result = Idle
    /\ \E self \in Adapters, c \in {None, "hi"}, m \in DirectMediaUrlLists,
          t \in TargetIds \cup {None}, rs \in Runs2 :
           \E did \in {post_content(self, c, m, t, rs)} :
               /\ Direct("adapter", "post_content",
                         [self |-> self, content |-> c, media_urls |-> m,
                          target_id |-> t], did)
               /\ replies' = SubSeq(rs, 1, Len(did.http))

AdapterGetAnalytics ==
    /\ result = Idle
    /\ \E self \in Adapters, m \in Metrics, p \in Periods, rs \in Runs1 :
           \E did \in {get_analytics(self, m, p, rs)} :
               /\ Direct("adapter", "get_analytics",
                         [self |-> self, metric |-> m, period |-> p], did)
               /\ replies' = SubSeq(rs, 1, Len(did.http))

\* MetaClient.send_message_with_retry called by itself
SendMessageWithRetry ==
    /\ result = Idle
    /\ \E p \in PlatformArgs, rid \in DirectRecipientIds, m \in {NoneSeq, GoodUrl},
          rs \in Runs3 :
           \E did \in {send_message_with_retry(settings, p, rid, "hi", m, rs)} :
               /\ op' = [layer |-> "client", name |-> "send_message_with_retry",
                         args |-> [platform |-> p, recipient_id |-> rid,
                                   content |-> "hi", media_url |-> m]]
               /\ result' = did.out
               /\ http' = did.http
               /\ replies' = SubSeq(rs, 1, Len(did.http))
               /\ trace' = NoTrace
               /\ attempts' = did.attempts
               /\ UNCHANGED <<settings, calls, heap>>

\* two send_message calls on one MockPlatformAdapter, each reading the clock
\* once after its delay; the results are kept in call order
MockSendMessageTwice ==
    /\ result = Idle
    /\ \E p \in Platform, r1 \in DirectRecipientIds, r2 \in DirectRecipientIds,
          c1 \in Contents, c2 \in Contents, t1 \in ClockReadings, t2 \in ClockReadings :
           LET self == MockPlatformAdapter("demo_token", p)
               first == Mock_send_message_at(self, r1, c1, NoneSeq, t1)
               second == Mock_send_message_at(self, r2, c2, NoneSeq, t2)
           IN  /\ Direct("mock", "send_message",
                         [self |-> self,
                          calls |-> <<[recipient_id |-> r1, content |-> c1, now |-> t1],
                                      [recipient_id |-> r2, content |-> c2, now |-> t2]>>],
                         Did(Ok(<<first.out.value, second.out.value>>), <<>>))
               /\ replies' = <<>>

\* validate_e164_phone applied to a string
ValidateE164Phone ==
    /\ result = Idle
    /\ \E phone \in Phones :
           /\ Direct("validators", "validate_e164_phone", [phone |-> phone],
                     Did(Ok(validate_e164_phone(phone)), <<>>))
           /\ replies' = <<>>

\* the same (content, media_urls) given to the validation layer and to the
\* Instagram adapter
InstagramPostChecks ==
    /\ result = Idle
    /\ \E c \in CheckContents, m \in CheckMediaUrlLists, t \in TargetIds \cup {None},
          rs \in {<<Response(200, FullJson), Response(200, FullJson)>>,
                  <<Response(500, BareJson), Response(500, BareJson)>>} :
           \E did \in {post_content(InstagramAdapter("test_token", "v21.0"), c, m, t, rs)} :
               /\ Direct("checks", "instagram_post_checks",
                         [content |-> c, media_urls |-> m, target_id |-> t],
                         Did(Ok([ validator |->
                                    validate_post_content_request("instagram", c, m),
                                  adapter |-> did.out ]),
                             did.http))
               /\ replies' = SubSeq(rs, 1, Len(did.http))

\* call_tool invoked while other calls are in flight: the coroutine runs to
\* its first await of an HTTP response, or to its end when it awaits none
Begin(i) ==
    /\ calls[i].pc = "idle"
    /\ \E t \in ConcurrentCalls :
         \E c \in {call_tool(settings, t.name, t.args, <<Pending>>)} :
           IF c.stage # "adapter"
               THEN /\ calls' = [calls EXCEPT ![i] =
                                   [pc |-> "done", name |-> t.name, args |-> t.args,
                                    ref |-> 0, built |-> NoAdapter, seen |-> settings,
                                    http |-> <<>>, replies |-> <<>>, out |-> c.out]]
                    /\ heap' = heap
           ELSE \E n \in {new_instance(heap, get_adapter(settings, t.args["platform"]).value)} :
                  \E k \in {call_tool_on_adapter(n.heap[n.ref], t.name, t.args, <<Pending>>)} :
                    /\ calls' = [calls EXCEPT ![i] =
                                   [pc |-> IF Len(k.http) > 0 THEN "awaiting" ELSE "done",
                                    name |-> t.name, args |-> t.args,
                                    ref |-> n.ref, built |-> n.heap[n.ref],
                                    seen |-> settings,
                                    http |-> k.http, replies |-> <<>>,
                                    out |-> IF Len(k.http) > 0 THEN Idle ELSE k.out]]
                    /\ heap' = n.heap
    /\ UNCHANGED <<settings, op, result, http, replies, trace, attempts>>

\* the response a coroutine awaits arrives: it runs on, with the adapter it
\* holds, to its next await or to its end
Receive(i) ==
    /\ calls[i].pc = "awaiting"
    /\ \E r \in ConcurrentResponses :
         \E rs \in {Append(calls[i].replies, r)} :
           \E k \in {call_tool_on_adapter(heap[calls[i].ref], calls[i].name,
                                          calls[i].args, Append(rs, Pending))} :
             calls' = [calls EXCEPT ![i].replies = rs,
                                    ![i].http = k.http,
                                    ![i].pc = IF Len(k.http) > Len(rs) THEN "awaiting"
                                              ELSE "done",
                                    ![i].out = IF Len(k.http) > Len(rs) THEN Idle
                                               ELSE k.out]
    /\ UNCHANGED <<settings, op, result, http, replies, trace, attempts, heap>>

BeginCall == \E i \in CallIds : Begin(i)
ReceiveResponse == \E i \in CallIds : Receive(i)

\* map_meta_api_error applied to a status and a vendor payload
MapError ==
    /\ result = Idle
    /\ \E st \in StatusCodes, payload \in Payloads :
           /\ Direct("errors", "map_meta_api_error",
                     [status_code |-> st, response_data |-> payload],
                     Did(Ok(map_meta_api_error(st, payload)), <<>>))
           /\ replies' = <<>>

\* the caller takes the outcome; nothing of the call is kept
Return ==
    /\ result # Idle
    /\ op' = NoOp
    /\ result' = Idle
    /\ http' = <<>>
    /\ replies' = <<>>
    /\ trace' = NoTrace
    /\ attempts' = <<>>
    /\ UNCHANGED <<settings, calls, heap>>

Next ==
    \/ SendMessageTool
    \/ GetMessagesTool
    \/ PostContentTool
    \/ GetAnalyticsTool
    \/ UnknownTool
    \/ GetAdapter
    \/ AdapterSendMessage
    \/ AdapterGetMessages
    \/ AdapterPostContent
    \/ AdapterGetAnalytics
    \/ SendMessageWithRetry
    \/ ValidateE164Phone
    \/ InstagramPostChecks
    \/ MockSendMessageTwice
    \/ MapError
    \/ Return

Spec == Init /\ [][Next]_vars

\* tool calls interleaved at their awaits
NextConcurrent ==
    \/ BeginCall
    \/ ReceiveResponse

SpecConcurrent == Init /\ [][NextConcurrent]_vars

----------------------------------------------------------------------------
(* reading a finished call *)

IsTool == op.layer = "tool" /\ result # Idle
IsHandlerCall == IsTool /\ op.name \in ToolNames
IsDispatcherCall == op.layer = "dispatcher" /\ result # Idle
IsAdapterCall == op.layer = "adapter" /\ result # Idle

\* the call handed back a list of exactly one TextContent
ReturnedOne(r) == r.status = "ok" /\ Len(r.value) = 1

IsSuccessEnvelope(e) ==
    /\ DOMAIN e = {"success", "platform", "data", "message", "timestamp"}
    /\ e.success = TRUE
    /\ e.platform \in Platform

IsErrorEnvelope(e) ==
    /\ {"error_code", "error_message", "platform", "timestamp"} \subseteq DOMAIN e
    /\ "success" \notin DOMAIN e
    /\ "data" \notin DOMAIN e
    /\ e.platform \in Platform \cup {"unknown"}

ReturnedSuccess(r) == ReturnedOne(r) /\ IsSuccessEnvelope(r.value[1])
ReturnedError(r) == ReturnedOne(r) /\ IsErrorEnvelope(r.value[1])
ReturnedErrorCode(r, k) == ReturnedError(r) /\ r.value[1].error_code = k

ArgPlatform == Get(op.args, "platform", None)
ArgConversationId == Get(op.args, "conversation_id", None)
ArgRecipientId == Get(op.args, "recipient_id", NoneSeq)
ArgContent == Get(op.args, "content", None)
ArgMediaUrls == Get(op.args, "media_urls", NoneList)

----------------------------------------------------------------------------
(* C1 *)

\* the four ways of C1 in which a tool call misses its required fields
MissesRequiredFields ==
    \/ /\ op.name = "meta_get_messages"
       /\ ~TruthyStr(ArgConversationId)
       /\ ~TruthySeq(ArgRecipientId)
    \/ /\ op.name = "meta_post_content"
       /\ ~TruthyStr(ArgContent)
       /\ ~TruthySeq(ArgMediaUrls)
    \/ /\ op.name = "meta_post_content"
       /\ ArgPlatform = "instagram"
       /\ ~TruthySeq(ArgMediaUrls)
    \/ RequiredArgs(op.name) \ DOMAIN op.args # {}

\* C1: a tool call that misses its required-field combination ends in an
\* error (an error envelope or an exception, never a success envelope) and
\* issues no HTTP request, on every platform and under every configuration.
C1_MissingFieldsRejectedBeforeNetwork ==
    (IsHandlerCall /\ MissesRequiredFields)
        => /\ ~ReturnedSuccess(result)
           /\ result.status = "ok" => ReturnedError(result)
           /\ Len(http) = 0

\* an Instagram post with text only, in demo mode (where the adapter itself
\* would accept it), is rejected by the validator
C1_Witness ==
    /\ IsHandlerCall
    /\ op.name = "meta_post_content"
    /\ ArgPlatform = "instagram"
    /\ ArgContent = "hi"
    /\ ~TruthySeq(ArgMediaUrls)
    /\ settings.demo_mode
    /\ ReturnedErrorCode(result, VALIDATION_ERROR)
    /\ trace.stage = "validator"
    /\ http = <<>>

----------------------------------------------------------------------------
(* C2 *)

\* C2: every call_tool invocation returns exactly one envelope, a success
\* envelope or an error envelope, and lets no exception escape to the host.
C2_ExactlyOneEnvelope ==
    IsTool
        => /\ result.status = "ok"
           /\ Len(result.value) = 1
           /\ IsSuccessEnvelope(result.value[1]) # IsErrorEnvelope(result.value[1])

----------------------------------------------------------------------------
(* C3 *)

\* C3: the error_code of every error envelope call_tool returns is one of the
\* 14 kinds of the taxonomy.
C3_ClosedTaxonomy ==
    (IsTool /\ ReturnedError(result)) => result.value[1].error_code \in ErrorCode

----------------------------------------------------------------------------
(* C4 *)

\* C4: when the validator, the dispatcher or the adapter fails with a typed
\* error of kind k, the handler returns an error envelope whose error_code is
\* k and whose platform is the request's platform.
C4_TypedErrorSurfaced ==
    (IsHandlerCall /\ trace.inner.status = "typed")
        => /\ ReturnedErrorCode(trace.handler, trace.inner.code)
           /\ trace.handler.value[1].platform = ArgPlatform

----------------------------------------------------------------------------
(* C5 *)

\* the table of C5, read off the claim
C5_Table(status_code, type, message) ==
    IF status_code \in {401, 403} THEN AUTH_FAILED
    ELSE IF status_code = 429 THEN RATE_LIMIT_EXCEEDED
    ELSE IF status_code = 400 /\ (\E i \in 1..Len(type) : type[i] = "OAuthException")
        THEN AUTH_FAILED
    ELSE IF status_code = 400
            /\ (\E i \in 1..Len(message) : message[i] \in {"permission", "Permission", "PERMISSION"})
        THEN INSUFFICIENT_PERMISSIONS
    ELSE IF status_code = 400 THEN VALIDATION_ERROR
    ELSE API_ERROR

\* C5: map_meta_api_error maps every status and vendor payload to the kind the
\* table gives: 401/403 AUTH_FAILED, 429 RATE_LIMIT_EXCEEDED, 400 by the
\* vendor error (OAuth type first, then "permission" in the message, else
\* VALIDATION_ERROR), everything else API_ERROR.
C5_StatusMapping ==
    (op.layer = "errors" /\ result # Idle)
        => LET e == op.args.response_data.error
           IN  /\ result.status = "ok"
               /\ result.value \in ErrorCode
               /\ result.value =
                    C5_Table(op.args.status_code,
                             IF e.type = NoneSeq THEN <<>> ELSE e.type,
                             IF e.message = NoneSeq THEN <<>> ELSE e.message)

\* a 400 whose vendor error is an OAuthException with "Permission" in its
\* message: the OAuth check wins
C5_Witness ==
    /\ op.layer = "errors"
    /\ op.args.status_code = 400
    /\ op.args.response_data.error.type = <<"Graph", "OAuthException", "V2">>
    /\ op.args.response_data.error.message = <<"Permission", " denied">>
    /\ result = Ok(AUTH_FAILED)

----------------------------------------------------------------------------
(* C6 *)

\* C6: get_messages, post_content and get_analytics of the WhatsApp adapter
\* fail with PLATFORM_NOT_SUPPORTED for every argument combination and issue
\* no HTTP request.
C6_WhatsAppUnsupported ==
    (/\ IsAdapterCall
     /\ op.args.self.kind = "whatsapp"
     /\ op.name \in {"get_messages", "post_content", "get_analytics"})
        => /\ result.status = "typed"
           /\ result.code = PLATFORM_NOT_SUPPORTED
           /\ Len(http) = 0

\* get_messages on the WhatsApp adapter with a conversation id
C6_Witness ==
    /\ IsAdapterCall
    /\ op.args.self.kind = "whatsapp"
    /\ op.name = "get_messages"
    /\ op.args.conversation_id = "t_1"
    /\ result.status = "typed"
    /\ result.code = PLATFORM_NOT_SUPPORTED

----------------------------------------------------------------------------
(* C7 *)

\* a history, post or analytics tool call on whatsapp, with demo mode off,
\* WhatsApp configured and the required arguments present
C7_Case ==
    /\ IsHandlerCall
    /\ op.name \in {"meta_get_messages", "meta_post_content", "meta_get_analytics"}
    /\ RequiredArgs(op.name) \subseteq DOMAIN op.args
    /\ ArgPlatform = "whatsapp"
    /\ ~settings.demo_mode
    /\ settings.whatsapp_access_token # ""
    /\ settings.whatsapp_phone_number_id # ""

\* the request passes the checks section 4.3 runs before any adapter call
C7_PassesValidation ==
    CASE op.name = "meta_get_messages" ->
            TruthyStr(ArgConversationId) \/ TruthySeq(ArgRecipientId)
      [] op.name = "meta_post_content" ->
            /\ TruthyStr(ArgContent) \/ TruthySeq(ArgMediaUrls)
            /\ TruthySeq(ArgMediaUrls) =>
                 \A i \in 1..Len(ArgMediaUrls) :
                    /\ Len(ArgMediaUrls[i]) >= 3
                    /\ ArgMediaUrls[i][1] \in {"http", "https", "HTTP", "HTTPS"}
                    /\ ArgMediaUrls[i][2] = "://"
      [] OTHER -> TRUE

----------------------------------------------------------------------------
(* C8 *)

\* C8: in demo mode get_adapter returns a Mock adapter for every platform
\* name and every credential configuration, and no tool call issues an HTTP
\* request.
C8_DemoModeMock ==
    settings.demo_mode
        => /\ IsDispatcherCall
                => /\ result.status = "ok"
                   /\ result.value.kind = "mock"
           /\ IsHandlerCall /\ trace.stage \in {"dispatcher", "adapter"}
                => /\ trace.stage = "adapter"
                   /\ trace.adapter.kind = "mock"
           /\ IsTool => Len(http) = 0

\* demo mode with no token at all, asked for a platform
C8_Witness ==
    /\ settings.demo_mode
    /\ settings.facebook_page_access_token = ""
    /\ settings.instagram_access_token = ""
    /\ settings.whatsapp_access_token = ""
    /\ settings.whatsapp_phone_number_id = ""
    /\ IsDispatcherCall
    /\ op.args.platform = "facebook"
    /\ result.status = "ok"
    /\ result.value.kind = "mock"

----------------------------------------------------------------------------
(* C9 *)

C9_Token(p) ==
    CASE p = "facebook" -> settings.facebook_page_access_token
      [] p = "instagram" -> settings.instagram_access_token
      [] p = "whatsapp" -> settings.whatsapp_access_token

\* C9: with demo mode off, get_adapter(p) for p of the enumeration fails with
\* AUTH_FAILED iff p's token is empty or, for whatsapp, the phone-number
\* identifier is empty; otherwise it returns p's adapter variant carrying p's
\* token, the configured API version and (whatsapp) the phone-number id.
C9_AdapterMatchesConfiguration ==
    (IsDispatcherCall /\ ~settings.demo_mode /\ op.args.platform \in Platform)
        => LET p == op.args.platform
               incomplete ==
                   \/ C9_Token(p) = ""
                   \/ p = "whatsapp" /\ settings.whatsapp_phone_number_id = ""
           IN  IF incomplete
                   THEN result.status = "typed" /\ result.code = AUTH_FAILED
               ELSE /\ result.status = "ok"
                    /\ result.value.kind = p
                    /\ result.value.access_token = C9_Token(p)
                    /\ result.value.api_version = settings.meta_api_version
                    /\ result.value.phone_number_id =
                          (IF p = "whatsapp" THEN settings.whatsapp_phone_number_id
                           ELSE None)

\* instagram asked for while facebook and instagram are both configured
C9_Witness ==
    /\ IsDispatcherCall
    /\ ~settings.demo_mode
    /\ op.args.platform = "instagram"
    /\ settings.facebook_page_access_token = "fb_token"
    /\ result.status = "ok"
    /\ result.value.kind = "instagram"
    /\ result.value.access_token = "ig_token"

----------------------------------------------------------------------------
(* C10 *)

\* C10: get_adapter fails with INVALID_PLATFORM for a platform name outside
\* the enumeration, under every configuration.
C10_UnknownPlatformInvalid ==
    (IsDispatcherCall /\ op.args.platform \notin Platform)
        => /\ result.status = "typed"
           /\ result.code = INVALID_PLATFORM

----------------------------------------------------------------------------
(* C11 *)

IsRetryCall == op.layer = "client" /\ result # Idle

\* C11: send_message_with_retry makes between 1 and 3 attempts; no attempt
\* follows a successful one; the call returns the result of its first
\* successful attempt, or, after three failed attempts, raises the failure of
\* the third attempt itself (same kind, same message, no retry error around it).
C11_BoundedRetry ==
    IsRetryCall
        => LET n == Len(attempts)
           IN  /\ n \in 1..3
               /\ \A i \in 1..(n - 1) : attempts[i].out.status # "ok"
               /\ \A i \in 1..n : attempts[i].attempt_number = i
               /\ result = attempts[n].out
               /\ result.status # "ok" => n = 3
               /\ Len(http) <= 3

\* three attempts that fail in three different ways: a timeout, a 429 and a
\* 401; the call raises the AUTH_FAILED of the third
C11_Witness ==
    /\ IsRetryCall
    /\ Len(attempts) = 3
    /\ attempts[1].out.status = "untyped"
    /\ attempts[2].out.status = "typed"
    /\ attempts[2].out.code = RATE_LIMIT_EXCEEDED
    /\ result = Typed(AUTH_FAILED, <<"HTTPStatusError", 401>>)
    /\ Len(http) = 3

----------------------------------------------------------------------------
(* C12 *)

\* C12: a meta_send_message call whose adapter send fails is attempted again
\* under the retry policy, so an error envelope is returned only after three
\* sends (three HTTP requests, every send of a real adapter issuing one).
C12_ToolSendRetried ==
    (/\ IsHandlerCall
     /\ op.name = "meta_send_message"
     /\ trace.stage = "adapter"
     /\ trace.inner.status # "ok")
        => Len(http) = 3

----------------------------------------------------------------------------
(* C13 *)

\* a get_messages, post_content or get_analytics call, through its tool or on
\* an adapter
C13_Case ==
    \/ IsHandlerCall
          /\ op.name \in {"meta_get_messages", "meta_post_content", "meta_get_analytics"}
    \/ IsAdapterCall /\ op.name \in {"get_messages", "post_content", "get_analytics"}

\* the request got no usable answer: no response, a status outside 2xx or a
\* body that is not JSON
C13_StepFailed(r) == ~(r.kind = "response" /\ r.status_code \in 200..299 /\ r.body.json)

\* C13: in a get_messages, post_content or get_analytics call the first
\* failure ends the call: a failed validation or dispatch is followed by no
\* HTTP request, a failed HTTP request is the last request of the call, no
\* request is issued twice, and the call reports a failure.
C13_FirstFailureEnds ==
    C13_Case
        => /\ Len(replies) = Len(http)
           /\ Len(http) <= 2
           /\ \A i \in 1..(Len(http) - 1) : ~C13_StepFailed(replies[i])
           /\ \A i, j \in 1..Len(http) : i # j => http[i] # http[j]
           /\ (IsHandlerCall /\ trace.stage # "adapter") => Len(http) = 0
           /\ (Len(http) > 0 /\ C13_StepFailed(replies[Len(http)]))
                => IF IsHandlerCall THEN ~ReturnedSuccess(result)
                   ELSE result.status # "ok"

\* an Instagram post through the tool whose container request is answered
\* with 500: one request, an API_ERROR envelope
C13_Witness ==
    /\ IsHandlerCall
    /\ op.name = "meta_post_content"
    /\ ArgPlatform = "instagram"
    /\ Len(http) = 1
    /\ replies[1].status_code = 500
    /\ ReturnedErrorCode(result, API_ERROR)

----------------------------------------------------------------------------
(* C14, C15 *)

\* E.164 as C15 words it: a '+', one digit 1-9, then 1 to 14 digits 0-9, and
\* nothing else
C15_IsE164(t) ==
    /\ Len(t) \in 3..16
    /\ t[1] = "+"
    /\ t[2] \in {"1", "2", "3", "4", "5", "6", "7", "8", "9"}
    /\ \A i \in 3..Len(t) : t[i] \in {"0", "1", "2", "3", "4", "5", "6", "7", "8", "9"}

\* C14: a meta_send_message call on whatsapp whose recipient_id is not E.164
\* returns a VALIDATION_ERROR envelope under every configuration, raised by
\* the validator: the dispatcher is not consulted and no HTTP request is issued.
C14_NonE164RejectedBeforeDispatch ==
    (/\ IsHandlerCall
     /\ op.name = "meta_send_message"
     /\ RequiredArgs(op.name) \subseteq DOMAIN op.args
     /\ ArgPlatform = "whatsapp"
     /\ ~C15_IsE164(ArgRecipientId))
        => /\ ReturnedErrorCode(result, VALIDATION_ERROR)
           /\ trace.stage = "validator"
           /\ Len(http) = 0

\* C15: validate_e164_phone(s) is true iff s is a '+', one digit 1-9 and 1 to
\* 14 further digits, with no other character anywhere in s.
C15_E164Exact ==
    (op.layer = "validators" /\ op.name = "validate_e164_phone" /\ result # Idle)
        => result = Ok(C15_IsE164(op.args.phone))

----------------------------------------------------------------------------
(* C16 *)

\* the check of C16 on one URL: scheme http or https, and a host
C16_UrlOk(url) ==
    /\ Len(url) >= 3
    /\ url[1] \in {"http", "https", "HTTP", "HTTPS"}
    /\ url[2] = "://"
    /\ url[3] \notin PathTokens \cup {""}

\* the tool call carries a media URL that fails the check
C16_CarriesBadUrl ==
    \/ /\ op.name = "meta_send_message"
       /\ Has(op.args, "media_url")
       /\ ~C16_UrlOk(op.args["media_url"])
    \/ /\ op.name = "meta_post_content"
       /\ TruthySeq(ArgMediaUrls)
       /\ \E i \in 1..Len(ArgMediaUrls) : ~C16_UrlOk(ArgMediaUrls[i])

\* C16: a tool call (with its required arguments, on a platform of the
\* enumeration) that carries a media URL whose scheme is not http/https or
\* whose host is empty is rejected with VALIDATION_ERROR and issues no HTTP
\* request.
C16_MediaUrlsChecked ==
    (/\ IsHandlerCall
     /\ RequiredArgs(op.name) \subseteq DOMAIN op.args
     /\ ArgPlatform \in Platform
     /\ C16_CarriesBadUrl)
        => /\ ReturnedErrorCode(result, VALIDATION_ERROR)
           /\ Len(http) = 0

----------------------------------------------------------------------------
(* C17 *)

\* an Instagram post with no media URLs through the tool
C17_ToolCase ==
    /\ IsHandlerCall
    /\ op.name = "meta_post_content"
    /\ ArgPlatform = "instagram"
    /\ ~TruthySeq(ArgMediaUrls)

\* the same request made on InstagramAdapter.post_content directly
C17_AdapterCase ==
    /\ IsAdapterCall
    /\ op.name = "post_content"
    /\ op.args.self.kind = "instagram"
    /\ ~TruthySeq(op.args.media_urls)

\* C17 as stated: on both paths the request fails with MISSING_CONTENT and
\* issues no HTTP request.
C17_MissingContentOnBothPaths ==
    /\ C17_ToolCase
          => ReturnedErrorCode(result, MISSING_CONTENT) /\ Len(http) = 0
    /\ C17_AdapterCase
          => result.status = "typed" /\ result.code = MISSING_CONTENT /\ Len(http) = 0

\* C17 as amended: on the adapter the request fails with MISSING_CONTENT;
\* through the tool the validator rejects it first, with VALIDATION_ERROR,
\* under every configuration; neither path issues an HTTP request.
C17_NoMediaRejectedOnBothPaths ==
    /\ C17_ToolCase
          => /\ ReturnedErrorCode(result, VALIDATION_ERROR)
             /\ trace.stage = "validator"
             /\ Len(http) = 0
    /\ C17_AdapterCase
          => result.status = "typed" /\ result.code = MISSING_CONTENT /\ Len(http) = 0

\* a text-only Instagram post through the tool, Instagram configured and demo
\* mode off
C17_Witness ==
    /\ C17_ToolCase
    /\ ArgContent = "hi"
    /\ ~settings.demo_mode
    /\ settings.instagram_access_token # ""
    /\ ReturnedErrorCode(result, VALIDATION_ERROR)
    /\ Len(http) = 0

----------------------------------------------------------------------------
(* C18 *)

\* C18: MockPlatformAdapter.get_messages with a limit in 1..100 returns
\* exactly min(limit, 3) records, never more than limit, whatever the
\* identifiers are; it never fails and issues no HTTP request.
C18_MockHistoryCapped ==
    (/\ IsAdapterCall
     /\ op.name = "get_messages"
     /\ op.args.self.kind = "mock"
     /\ op.args.limit \in 1..100)
        => /\ result.status = "ok"
           /\ Len(result.value) = (IF op.args.limit <= 3 THEN op.args.limit ELSE 3)
           /\ Len(result.value) <= op.args.limit
           /\ Len(http) = 0

\* limit 5 with no identifier at all: three records
C18_Witness ==
    /\ IsAdapterCall
    /\ op.name = "get_messages"
    /\ op.args.self.kind = "mock"
    /\ op.args.limit = 5
    /\ op.args.conversation_id = None
    /\ op.args.recipient_id = NoneSeq
    /\ result.status = "ok"
    /\ Len(result.value) = 3

----------------------------------------------------------------------------
(* C19 *)

\* C19: a meta_get_messages call whose limit (10 when omitted) is below 1 or
\* above 100 is rejected before any adapter call or HTTP request, and every
\* limit that reaches the wire lies in 1..100.
C19_LimitInRange ==
    (IsHandlerCall /\ op.name = "meta_get_messages" /\ ArgPlatform \in Platform)
        => /\ Get(op.args, "limit", 10) \notin 1..100
                => /\ trace.stage # "adapter"
                   /\ ~ReturnedSuccess(result)
                   /\ Len(http) = 0
           /\ \A i \in 1..Len(http) : http[i].params.limit \in 1..100

----------------------------------------------------------------------------
(* C20 *)

\* the response is a 2xx whose body is a JSON object with no messages array,
\* an empty one, or one whose first element has an id
C20_Answered(r) ==
    /\ r.kind = "response"
    /\ r.status_code \in 200..299
    /\ r.body.json
    /\ \/ r.body.messages = NoneList
       \/ Len(r.body.messages) = 0
       \/ r.body.messages[1] # NoId

\* messages[0].id of such a response, "unknown" without a first element
C20_MessageId(r) ==
    IF r.body.messages = NoneList \/ Len(r.body.messages) = 0 THEN <<"unknown">>
    ELSE r.body.messages[1]

\* C20: WhatsAppAdapter.send_message issues one request and, on a 2xx JSON
\* response, returns the id of the first element of its messages array, or
\* "unknown" when the array is absent or empty; a meta_send_message call on
\* whatsapp (configured, demo off) with an E.164 recipient and such a response
\* returns a success envelope with that message_id after exactly one request.
C20_WhatsAppMessageId ==
    /\ (/\ IsAdapterCall
         /\ op.name = "send_message"
         /\ op.args.self.kind = "whatsapp")
            => /\ Len(http) = 1
               /\ Len(replies) = 1
               /\ C20_Answered(replies[1])
                    => result = Ok([message_id |-> C20_MessageId(replies[1])])
    /\ (/\ IsHandlerCall
         /\ op.name = "meta_send_message"
         /\ RequiredArgs(op.name) \subseteq DOMAIN op.args
         /\ ArgPlatform = "whatsapp"
         /\ C15_IsE164(ArgRecipientId)
         /\ ~settings.demo_mode
         /\ settings.whatsapp_access_token # ""
         /\ settings.whatsapp_phone_number_id # "")
            => /\ Len(http) = 1
               /\ Len(replies) = 1
               /\ C20_Answered(replies[1])
                    => /\ ReturnedSuccess(result)
                       /\ result.value[1].data =
                             [message_id |-> C20_MessageId(replies[1])]

\* the tool call answered with a messages array of two elements: the id of
\* the first comes back
C20_Witness ==
    /\ IsHandlerCall
    /\ op.name = "meta_send_message"
    /\ ArgPlatform = "whatsapp"
    /\ Len(http) = 1
    /\ replies[1].body.messages = << <<"wamid.1">>, <<"wamid.2">> >>
    /\ ReturnedSuccess(result)
    /\ result.value[1].data.message_id = <<"wamid.1">>

----------------------------------------------------------------------------
(* C21 *)

\* C21: an operation of the Facebook, Instagram or WhatsApp adapter whose
\* request is answered with a status outside 2xx fails with a typed error of
\* the kind the status mapping gives, whatever the body is; it never fails
\* with an untyped exception.
C21_NonSuccessTyped ==
    (/\ IsAdapterCall
     /\ op.args.self.kind \in Platform
     /\ Len(http) > 0
     /\ replies[Len(http)].kind = "response"
     /\ replies[Len(http)].status_code \notin 200..299)
        => LET r == replies[Len(http)]
           IN  /\ result.status = "typed"
               /\ result.code \in ErrorCode
               /\ r.body.json => result.code = map_meta_api_error(r.status_code, r.body)

----------------------------------------------------------------------------
(* C22 *)

\* a post_content call that ran on an Instagram adapter, directly or through
\* the tool
C22_Case ==
    \/ IsAdapterCall /\ op.name = "post_content" /\ op.args.self.kind = "instagram"
    \/ /\ IsHandlerCall
       /\ op.name = "meta_post_content"
       /\ trace.stage = "adapter"
       /\ trace.adapter.kind = "instagram"

\* {target or me} of the call
C22_Target ==
    LET t == Get(op.args, "target_id", None)
    IN  IF TruthyStr(t) THEN t ELSE "me"

C22_Is2xx(r) == r.kind = "response" /\ r.status_code \in 200..299

C22_Succeeded ==
    IF IsHandlerCall THEN ReturnedSuccess(result) ELSE result.status = "ok"

\* C22: InstagramAdapter.post_content issues at most two requests, the
\* container POST to {target or me}/media first and the publish POST to
\* {target or me}/media_publish second, the second only after a 2xx answer to
\* the first; a failed publish fails the call with no further request; a
\* post_id is returned only when both requests were answered 2xx.
C22_TwoPhaseOrder ==
    C22_Case
        => /\ Len(http) <= 2
           /\ Len(replies) = Len(http)
           /\ Len(http) >= 1
                => /\ http[1].method = "POST"
                   /\ SubSeq(http[1].url, 3, 4) = <<C22_Target, "media">>
           /\ Len(http) = 2
                => /\ http[2].method = "POST"
                   /\ SubSeq(http[2].url, 3, 4) = <<C22_Target, "media_publish">>
                   /\ C22_Is2xx(replies[1])
           /\ (Len(http) >= 1 /\ ~C22_Is2xx(replies[1])) => Len(http) = 1
           /\ (Len(http) = 2 /\ ~C22_Is2xx(replies[2])) => ~C22_Succeeded
           /\ C22_Succeeded
                => Len(http) = 2 /\ C22_Is2xx(replies[1]) /\ C22_Is2xx(replies[2])

\* the container is created and the publish request is answered with 500:
\* two requests, the call fails with API_ERROR
C22_Witness ==
    /\ IsAdapterCall
    /\ op.name = "post_content"
    /\ op.args.self.kind = "instagram"
    /\ Len(http) = 2
    /\ replies[1].status_code = 200
    /\ replies[2].status_code = 500
    /\ result.status = "typed"
    /\ result.code = API_ERROR

----------------------------------------------------------------------------
(* C30 *)

\* an Instagram post_content call that issued its container request
C30_Case == C22_Case /\ Len(http) >= 1

----------------------------------------------------------------------------
(* C23 *)

C23_Case == op.layer = "checks" /\ result # Idle

\* the adapter's media check rejected the request
C23_AdapterRejects ==
    /\ result.value.adapter.status = "typed"
    /\ result.value.adapter.code = MISSING_CONTENT
    /\ Len(http) = 0

C23_ValidatorRejects == result.value.validator.status = "typed"

\* C23 as stated: what the validator accepts passes the adapter's media check,
\* what the adapter rejects the validator rejects, and both rejections carry
\* the same error kind.
C23_ChecksAgreeWithSameKind ==
    C23_Case
        => /\ ~C23_ValidatorRejects => ~C23_AdapterRejects
           /\ C23_AdapterRejects
                => /\ C23_ValidatorRejects
                   /\ result.value.validator.code = result.value.adapter.code

\* C23 as amended: what the validator accepts passes the adapter's media check
\* and what the adapter rejects the validator rejects; the validator reports
\* VALIDATION_ERROR where the adapter reports MISSING_CONTENT.
C23_ChecksAgreeOnRejection ==
    C23_Case
        => /\ ~C23_ValidatorRejects => ~C23_AdapterRejects
           /\ C23_AdapterRejects
                => /\ C23_ValidatorRejects
                   /\ result.value.validator.code = VALIDATION_ERROR
                   /\ result.value.adapter.code = MISSING_CONTENT

\* a list whose first URL is the empty string: the adapter rejects it for the
\* missing media, the validator for the invalid URL
C23_Witness ==
    /\ C23_Case
    /\ op.args.media_urls = << <<>>, GoodUrl>>
    /\ op.args.content = "hi"
    /\ C23_AdapterRejects
    /\ C23_ValidatorRejects

----------------------------------------------------------------------------
(* C24 *)

\* get_messages on the Facebook or Instagram adapter without a conversation id
C24_AdapterCase ==
    /\ IsAdapterCall
    /\ op.name = "get_messages"
    /\ op.args.self.kind \in {"facebook", "instagram"}
    /\ ~TruthyStr(op.args.conversation_id)

\* a meta_get_messages call on facebook or instagram that passes validation
\* with a recipient_id only
C24_ToolCase ==
    /\ IsHandlerCall
    /\ op.name = "meta_get_messages"
    /\ ArgPlatform \in {"facebook", "instagram"}
    /\ ~TruthyStr(ArgConversationId)
    /\ TruthySeq(ArgRecipientId)

C24_AdapterFails ==
    C24_AdapterCase
        => result.status = "typed" /\ result.code = MISSING_IDENTIFIER /\ Len(http) = 0

\* C24 as stated: the adapter call fails with MISSING_IDENTIFIER and no HTTP
\* request, and so does every such tool call.
C24_MissingIdentifier ==
    /\ C24_AdapterFails
    /\ C24_ToolCase
          => ReturnedErrorCode(result, MISSING_IDENTIFIER) /\ Len(http) = 0

\* C24 as amended: the adapter call fails with MISSING_IDENTIFIER and no HTTP
\* request; the tool call returns MISSING_IDENTIFIER when demo mode is off and
\* the platform is configured, AUTH_FAILED when demo mode is off and it is
\* not, and the Mock adapter's success envelope in demo mode; it issues no
\* HTTP request in any of the three cases.
C24_MissingIdentifierWhenConfigured ==
    /\ C24_AdapterFails
    /\ C24_ToolCase
          => /\ Len(http) = 0
             /\ IF settings.demo_mode THEN ReturnedSuccess(result)
                ELSE IF C9_Token(ArgPlatform) = ""
                    THEN ReturnedErrorCode(result, AUTH_FAILED)
                ELSE ReturnedErrorCode(result, MISSING_IDENTIFIER)

\* a history call on facebook, configured and demo off, with a recipient only
C24_Witness ==
    /\ C24_ToolCase
    /\ ArgPlatform = "facebook"
    /\ ~settings.demo_mode
    /\ trace.stage = "adapter"
    /\ trace.adapter.kind = "facebook"
    /\ ReturnedErrorCode(result, MISSING_IDENTIFIER)
    /\ Len(http) = 0

----------------------------------------------------------------------------
(* C25 *)

\* the error kinds produced for HTTP status failures
C25_StatusKinds ==
    {AUTH_FAILED, INSUFFICIENT_PERMISSIONS, VALIDATION_ERROR, RATE_LIMIT_EXCEEDED, API_ERROR}

\* C25: a tool call one of whose HTTP requests timed out or failed to connect
\* issues no request after that one and returns an error envelope whose kind
\* is a kind of the taxonomy other than those produced for HTTP status
\* failures.
C25_TransportFailureDistinctKind ==
    (/\ IsHandlerCall
     /\ \E i \in 1..Len(http) : replies[i].kind # "response")
        => /\ \A i \in 1..(Len(http) - 1) : replies[i].kind = "response"
           /\ ReturnedError(result)
           /\ result.value[1].error_code \in ErrorCode \ C25_StatusKinds

----------------------------------------------------------------------------
(* C26 *)

\* 2 to the power n, by repeated doubling
RECURSIVE C26_Pow2(_)
C26_Pow2(n) == IF n = 0 THEN 1 ELSE 2 * C26_Pow2(n - 1)

\* min(10, max(1, 2^(k-1)))
C26_Wait(k) ==
    LET m == IF C26_Pow2(k - 1) > 1 THEN C26_Pow2(k - 1) ELSE 1
    IN  IF m < 10 THEN m ELSE 10

\* C26: in send_message_with_retry the wait after attempt k (k = 1, 2), when
\* another attempt follows, is min(10, max(1, 2^(k-1))): 1 and then 2; every
\* wait lies in 1..10, waits never decrease, and the last attempt is followed
\* by no wait.
C26_BackoffSchedule ==
    IsRetryCall
        => LET n == Len(attempts)
           IN  /\ \A k \in 1..(n - 1) :
                      /\ attempts[k].slept
                      /\ attempts[k].wait = C26_Wait(k)
                      /\ attempts[k].wait = (IF k = 1 THEN 1 ELSE 2)
                      /\ attempts[k].wait \in 1..10
               /\ \A k \in 1..(n - 2) : attempts[k].wait <= attempts[k + 1].wait
               /\ ~attempts[n].slept
               /\ attempts[n].wait = 0

\* three failed attempts: a wait of 1, a wait of 2, none after the third
C26_Witness ==
    /\ IsRetryCall
    /\ Len(attempts) = 3
    /\ attempts[1].wait = 1
    /\ attempts[2].wait = 2
    /\ ~attempts[3].slept
    /\ result.status # "ok"

----------------------------------------------------------------------------
(* C29 *)

\* C29: send_message_with_retry retries after every kind of failure and
\* resolves the adapter on each attempt: every attempt calls get_adapter, a
\* failed attempt other than the third is followed by another, and for a
\* platform that is not configured (demo mode off) there are exactly three
\* attempts, each ending in get_adapter's AUTH_FAILED, no HTTP request, and
\* the call raises the error of the third.
C29_EveryFailureRetried ==
    IsRetryCall
        => LET n == Len(attempts)
           IN  /\ \A k \in 1..n :
                      /\ attempts[k].adapter = get_adapter(settings, op.args.platform)
                      /\ attempts[k].out.status # "ok" => (k = 3 \/ k < n)
               /\ (~settings.demo_mode
                      /\ ~validate_platform_config(settings, op.args.platform))
                    => /\ n = 3
                       /\ \A k \in 1..3 :
                              /\ attempts[k].out.status = "typed"
                              /\ attempts[k].out.code = AUTH_FAILED
                              /\ attempts[k].http = <<>>
                       /\ Len(http) = 0
                       /\ result = attempts[3].out

\* whatsapp with a token but no phone-number id, demo mode off: three
\* attempts, three AUTH_FAILED, no request
C29_Witness ==
    /\ IsRetryCall
    /\ op.args.platform = "whatsapp"
    /\ ~settings.demo_mode
    /\ settings.whatsapp_access_token = "wa_token"
    /\ settings.whatsapp_phone_number_id = ""
    /\ Len(attempts) = 3
    /\ result.status = "typed"
    /\ result.code = AUTH_FAILED
    /\ Len(http) = 0

----------------------------------------------------------------------------
(* C27 *)

\* C27: any two calls of MockPlatformAdapter.send_message return distinct
\* message_id values, also for the same recipient and the same clock reading.
C27_DistinctMessageIds ==
    (op.layer = "mock" /\ op.name = "send_message" /\ result # Idle)
        => result.value[1].message_id # result.value[2].message_id

\* what does hold: the ids differ whenever the recipients or the clock
\* readings differ
C27_DistinctWhenInputsDiffer ==
    (op.layer = "mock" /\ op.name = "send_message" /\ result # Idle)
        => (result.value[1].message_id = result.value[2].message_id
               <=> /\ op.args.calls[1].recipient_id = op.args.calls[2].recipient_id
                   /\ op.args.calls[1].now = op.args.calls[2].now)

----------------------------------------------------------------------------
(* C28 *)

\* C28: in every interleaving of concurrently running tool calls, each call
\* that reached the dispatcher holds an adapter object of its own, built by
\* get_adapter from the settings; the settings and the fields of every adapter
\* are as they were when the call read or built them; and a finished call's
\* requests and envelope are those of the same call run alone with the same
\* arguments, settings and responses.
C28_CallsIsolated ==
    \A i \in CallIds :
        calls[i].pc # "idle"
            => /\ calls[i].seen = settings
               /\ calls[i].ref # 0
                    => /\ \A j \in CallIds \ {i} : calls[j].ref # calls[i].ref
                       /\ heap[calls[i].ref] = calls[i].built
                       /\ Ok(calls[i].built)
                             = get_adapter(settings, calls[i].args["platform"])
               /\ calls[i].pc = "done"
                    => LET alone == call_tool(settings, calls[i].name, calls[i].args,
                                              Append(calls[i].replies, Pending))
                       IN  /\ calls[i].out = alone.out
                           /\ calls[i].http = alone.http
                           /\ Len(calls[i].http) = Len(calls[i].replies)

\* call 1 began first and is suspended on its publish request; call 2 began
\* after it on the same platform, with an equal but separate adapter, and has
\* already finished
C28_Witness ==
    /\ calls[1].pc = "awaiting"
    /\ calls[1].name = "meta_post_content"
    /\ Len(calls[1].replies) = 1
    /\ Len(calls[1].http) = 2
    /\ calls[1].ref = 1
    /\ calls[2].pc = "done"
    /\ calls[2].name = "meta_post_content"
    /\ calls[2].ref = 2
    /\ heap[1] = heap[2]
    /\ Len(calls[2].replies) = 2
    /\ ReturnedSuccess(calls[2].out)

====
